---------------------------- MODULE Spec2Model ----------------------------
(***************************************************************************)
(* Math Battle server: the Socket.IO handlers of server.js over the three  *)
(* in-memory stores RoomManager.rooms, PlayerManager.players and           *)
(* GameLogic.gameSessions, the two setTimeout callbacks they schedule, and *)
(* the pure scoring functions.  Every handler runs to completion before    *)
(* the next event is taken (Node's single thread), so each handler is one  *)
(* action.                                                                 *)
(***************************************************************************)
EXTENDS Integers, Sequences, FiniteSets, Bags, TLC

VARIABLES
    rooms,          \* RoomManager.rooms         : room code -> room
    players,        \* PlayerManager.players     : socket id -> player
    gameSessions,   \* GameLogic.gameSessions    : room code -> game session
    timers,         \* bag of pending setTimeout callbacks
    gone,           \* sockets whose 'disconnect' event has been handled
    out,            \* events emitted by the handler that ran last
    now,            \* the server clock (ms)
    pure            \* inputs and results of the pure functions under test

vars == <<rooms, players, gameSessions, timers, gone, out, now, pure>>

-----------------------------------------------------------------------------
(* Bounds of the model *)

NumConns == 2        \* sockets of the round specification
NumCodes == 1        \* room codes its generator can draw
NumLobbyConns == 3   \* sockets of the lobby specification
NumLobbyCodes == 2   \* room codes its generator can draw
MaxDraws == 2        \* iterations of the generator's loop for one code
MaxAnswers == 1      \* accepted answers per roster record in the round specification
MaxTimers == 2       \* setTimeout callbacks pending at once
MaxStreakIn == 6     \* largest streak handed to the scoring functions
MaxAnswerLen == 3    \* longest answer string handed to the answer checks
NumRanked == 3       \* players of the roster handed to the ranking
MaxNow == 2          \* clock readings after the start in the timed specification
MaxSweeps == 6       \* runs of the cleanup interval
MaxUpdates == 3      \* score updates of a player between two resets
MaxRounds == 2       \* accepted answers per roster record in the restart specification
OperandSpread == 1   \* outcomes of a random operand or index drawn at either end of its range
OffsetSpread == 2    \* outcomes of a random distractor offset drawn at either end of its range
MaxSetCount == 3     \* questions of a set

Conns == 1..NumConns
LobbyConns == 1..NumLobbyConns

-----------------------------------------------------------------------------
(* Strings are sequences of one-character strings *)

UpperChars == <<"A","B","C","D","E","F","G","H","I","J","K","L","M",
                "N","O","P","Q","R","S","T","U","V","W","X","Y","Z">>
LowerChars == <<"a","b","c","d","e","f","g","h","i","j","k","l","m",
                "n","o","p","q","r","s","t","u","v","w","x","y","z">>
DigitChars == <<"0","1","2","3","4","5","6","7","8","9">>
SpaceChars == {" ", "\t", "\n"}

Range(f) == {f[i] : i \in DOMAIN f}

\* String.prototype.toLowerCase on one character
LowerChar(ch) ==
    IF ch \in Range(UpperChars)
    THEN LowerChars[CHOOSE i \in DOMAIN UpperChars : UpperChars[i] = ch]
    ELSE ch

toLowerCase(str) == [i \in DOMAIN str |-> LowerChar(str[i])]

RECURSIVE trimStart(_)
trimStart(str) ==
    IF str # <<>> /\ Head(str) \in SpaceChars THEN trimStart(Tail(str)) ELSE str

RECURSIVE trimEnd(_)
trimEnd(str) ==
    IF str # <<>> /\ str[Len(str)] \in SpaceChars
    THEN trimEnd(SubSeq(str, 1, Len(str) - 1))
    ELSE str

\* String.prototype.trim
trim(str) == trimEnd(trimStart(str))

\* A client-supplied answer is a JSON string or a JSON number
StrVal(chars) == [t |-> "string", s |-> chars, n |-> 0]
NumVal(k) == [t |-> "number", s |-> <<>>, n |-> k]

-----------------------------------------------------------------------------
(* Scoring: PlayerManager.calculatePoints and GameLogic.calculateQuestionPoints *)

\* Math.round(n / d) for d > 0: the nearest integer, halves towards +infinity
MathRound(n, d) == (2 * n + d) \div (2 * d)

Min(a, b) == IF a <= b THEN a ELSE b
smallerOf(a, b) == IF a < b THEN a ELSE b
Max(a, b) == IF a >= b THEN a ELSE b

Difficulties == {"easy", "medium", "hard"}

\* difficultyMultipliers, in tenths: easy 0.8, medium 1.0, hard 1.3, default 1.0
difficultyMultipliers(difficulty) ==
    CASE difficulty = "easy" -> 8
      [] difficulty = "medium" -> 10
      [] difficulty = "hard" -> 13
      [] OTHER -> 10

basePoints == 100                  \* GameLogic.calculateQuestionPoints: basePoints
scoringCorrectAnswer == 100        \* PlayerManager.scoringConfig.correctAnswer
scoringTimeBonus == 50             \* PlayerManager.scoringConfig.timeBonus

\* GameLogic.calculateQuestionPoints(timeRemaining, maxTime, responseTime, difficulty)
calculateQuestionPoints(timeRemaining, maxTime, responseTime, difficulty) ==
    LET points == (basePoints * difficultyMultipliers(difficulty)) \div 10
        \* speedRatio = timeRemaining / maxTime; Math.round(points * 0.5 * speedRatio)
        speedBonus == MathRound(points * timeRemaining, 2 * maxTime)
    IN  points + speedBonus

\* PlayerManager.calculatePoints(timeRemaining, maxTime, streak, difficulty)
calculatePoints(timeRemaining, maxTime, streak, difficulty) ==
    LET p0 == (scoringCorrectAnswer * difficultyMultipliers(difficulty)) \div 10
        p1 == IF timeRemaining > 0 /\ maxTime > 0
              THEN p0 + MathRound(scoringTimeBonus * timeRemaining, maxTime)
              ELSE p0
        \* streakBonus = Math.min(streak / 10, 0.5); Math.round(points * (1 + streakBonus))
        p2 == IF streak >= 3
              THEN MathRound(p1 * (10 + Min(streak, 5)), 10)
              ELSE p1
    IN  p2

-----------------------------------------------------------------------------
(* Questions (QuestionBank) *)

\* Predefined questions the model draws from (questionBank.js predefinedQuestions)
QuestionEasy ==
    [id |-> 0, question |-> "15 + 23", correctAnswer |-> StrVal(<<"3","8">>),
     category |-> "arithmetic", difficulty |-> "easy"]
QuestionHard ==
    [id |-> 0, question |-> "127 x 63", correctAnswer |-> StrVal(<<"8",",","0","0","1">>),
     category |-> "arithmetic", difficulty |-> "hard"]

\* What QuestionBank.getRandomQuestion() may return
QuestionPool == {QuestionEasy, QuestionHard}

\* What QuestionBank.getQuestionSet(count, ...) may return: count questions,
\* the i-th stamped with id q_i
getQuestionSet(count) ==
    { [i \in 1..count |-> [(IF i % 2 = 0 THEN QuestionHard ELSE QuestionEasy)
                              EXCEPT !.id = i]] }

\* GameLogic.checkAnswer: normalizeAnswer keeps a number, lower-cases and trims
\* a string; the two normal forms are compared with ===
normalizeAnswer(ans) ==
    IF ans.t = "number" THEN ans ELSE StrVal(trim(toLowerCase(ans.s)))

checkAnswer(question, answer) ==
    normalizeAnswer(answer) = normalizeAnswer(question.correctAnswer)

-----------------------------------------------------------------------------
(* PlayerManager *)

AllowedNameChars ==
    Range(UpperChars) \cup Range(LowerChars) \cup Range(DigitChars)
        \cup SpaceChars \cup {"-", "_"}

\* A validation that lets every name through
anyName(name) == TRUE

\* PlayerManager.isValidPlayerName (names are always strings here)
isValidPlayerName(name) ==
    LET t == trim(name)
    IN  /\ Len(t) >= 2
        /\ Len(t) <= 20
        /\ \A i \in DOMAIN t : t[i] \in AllowedNameChars

NewPlayer(socketId, playerName, isHost) ==
    [id |-> socketId, name |-> trim(playerName), isHost |-> isHost,
     score |-> 0, correctAnswers |-> 0, wrongAnswers |-> 0,
     streak |-> 0, bestStreak |-> 0, averageResponseTime |-> 0,
     totalQuestions |-> 0, responseTimes |-> <<>>,
     correctByCategory |-> [c \in {"arithmetic", "logic", "geometry"} |-> 0],
     difficultyPerformance |-> [d \in Difficulties |-> [correct |-> 0, total |-> 0]]]

\* PlayerManager.createPlayer: the error thrown ("" when none) and the roster after
createPlayer(ps, socketId, playerName, isHost) ==
    IF ~isValidPlayerName(playerName)
    THEN [err |-> "InvalidName", players |-> ps]
    ELSE IF socketId \in DOMAIN ps
    THEN [err |-> "DuplicateConnection", players |-> ps]
    ELSE [err |-> "", players |-> (socketId :> NewPlayer(socketId, playerName, isHost)) @@ ps]

RECURSIVE SeqSum(_)
SeqSum(sq) == IF sq = <<>> THEN 0 ELSE Head(sq) + SeqSum(Tail(sq))

\* PlayerManager.calculateAverageResponseTime
calculateAverageResponseTime(responseTimes) ==
    IF Len(responseTimes) = 0 THEN 0
    ELSE MathRound(SeqSum(responseTimes), Len(responseTimes))

\* PlayerManager.updatePlayerScore on the record of an existing player
updatePlayerScore(pl, points, isCorrect, responseTime, category, difficulty) ==
    LET p1 == [pl EXCEPT !.score = @ + points, !.totalQuestions = @ + 1]
        p2 == IF isCorrect
              THEN [p1 EXCEPT !.correctAnswers = @ + 1,
                              !.streak = @ + 1,
                              !.bestStreak = Max(@, p1.streak + 1),
                              !.correctByCategory =
                                  IF category \in DOMAIN @
                                  THEN [@ EXCEPT ![category] = @ + 1] ELSE @]
              ELSE [p1 EXCEPT !.wrongAnswers = @ + 1, !.streak = 0]
        p3 == IF difficulty \in DOMAIN p2.difficultyPerformance
              THEN [p2 EXCEPT !.difficultyPerformance[difficulty] =
                        [total |-> @.total + 1,
                         correct |-> IF isCorrect THEN @.correct + 1 ELSE @.correct]]
              ELSE p2
        p4 == IF responseTime > 0
              THEN LET rts == Append(p3.responseTimes, responseTime)
                   IN  [p3 EXCEPT !.responseTimes = rts,
                                  !.averageResponseTime = calculateAverageResponseTime(rts)]
              ELSE p3
    IN  p4

\* PlayerManager.resetPlayerGameStats on the record of an existing player
resetPlayerGameStats(pl) ==
    [pl EXCEPT !.score = 0, !.correctAnswers = 0, !.wrongAnswers = 0,
               !.streak = 0, !.averageResponseTime = 0,
               !.totalQuestions = 0, !.responseTimes = <<>>,
               !.correctByCategory = [c \in DOMAIN @ |-> 0],
               !.difficultyPerformance =
                   [d \in DOMAIN @ |-> [correct |-> 0, total |-> 0]]]

\* PlayerManager.setAsHost
setAsHost(ps, playerId) ==
    IF playerId \in DOMAIN ps THEN [ps EXCEPT ![playerId].isHost = TRUE] ELSE ps

\* PlayerManager.removePlayer
removePlayer(ps, playerId) ==
    [q \in DOMAIN ps \ {playerId} |-> ps[q]]

-----------------------------------------------------------------------------
(* RoomManager *)

defaultMaxPlayers == 30
defaultQuestionTime == 30
defaultTotalQuestions == 10

defaultSettings ==
    [maxPlayers |-> defaultMaxPlayers, questionTime |-> defaultQuestionTime,
     totalQuestions |-> defaultTotalQuestions]

\* { ...this.defaultSettings, ...customSettings }
MergeSettings(customSettings) ==
    [k \in DOMAIN defaultSettings |->
        IF k \in DOMAIN customSettings THEN customSettings[k] ELSE defaultSettings[k]]

\* The gameSettings a create-room event carries: none, or the small room of
\* the end-to-end scenario (3 questions of 10 seconds)
NoSettings == [k \in {} |-> 0]
SmallRoom == [maxPlayers |-> 2, questionTime |-> 10, totalQuestions |-> 3]
SettingsChoices == {NoSettings, SmallRoom}

SeqIndexOf(sq, x) ==
    IF \E i \in DOMAIN sq : sq[i] = x
    THEN CHOOSE i \in DOMAIN sq : sq[i] = x /\ \A j \in 1..(i - 1) : sq[j] # x
    ELSE 0

SeqRemoveAt(sq, i) == SubSeq(sq, 1, i - 1) \o SubSeq(sq, i + 1, Len(sq))

\* RoomManager.generateRoomCode: one iteration of the loop builds a code of
\* codeLength characters, each chars.charAt(Math.floor(Math.random() * chars.length))
roomCodeChars == UpperChars \o DigitChars
codeLength == 6
charAt(str, index) == str[index + 1]
buildRoomCode(indices) == [i \in 1..codeLength |-> charAt(roomCodeChars, indices[i])]

\* The random indices of the k-th code the generator can draw in the model
RandomIndices(k) == [i \in 1..codeLength |-> (11 * k + 7 * i) % Len(roomCodeChars)]
CodesUpTo(n) == { buildRoomCode(RandomIndices(k)) : k \in 1..n }
Codes == CodesUpTo(NumCodes)
LobbyCodes == CodesUpTo(NumLobbyCodes)

\* No room (null)
NoRoom == <<>>

\* The codes one call of generateRoomCode builds, iteration by iteration: the
\* loop goes on while the code built is the code of a room
Draws(rs, codes) ==
    { draws \in UNION { [1..n -> codes] : n \in 1..MaxDraws } :
         /\ draws[Len(draws)] \notin DOMAIN rs
         /\ \A j \in 1..(Len(draws) - 1) : draws[j] \in DOMAIN rs }

\* A generator that returns the code of its first iteration
firstDraw(rs, draws) == draws[1]

\* RoomManager.generateRoomCode on the codes its iterations build
generateRoomCode(rs, draws) ==
    draws[CHOOSE i \in DOMAIN draws :
             /\ draws[i] \notin DOMAIN rs
             /\ \A j \in 1..(i - 1) : draws[j] \in DOMAIN rs]

\* RoomManager.createRoom with the code generateRoomCode returned; scores is
\* gameState.scores
createRoom(rs, roomCode, hostId, customSettings) ==
    LET settings == MergeSettings(customSettings)
    IN  (roomCode :> [code |-> roomCode, hostId |-> hostId, players |-> <<>>,
                      settings |-> settings, status |-> "waiting",
                      maxPlayers |-> settings.maxPlayers, scores |-> <<>>,
                      lastActivity |-> now]) @@ rs

\* RoomManager.getRoom touches lastActivity
touchRoom(rs, roomCode) ==
    IF roomCode \in DOMAIN rs THEN [rs EXCEPT ![roomCode].lastActivity = now] ELSE rs

\* A capacity check that never finds the room full
neverFull(room) == FALSE

\* The capacity check of join-room and of addPlayerToRoom
roomFull(room) == Len(room.players) >= room.maxPlayers

\* RoomManager.addPlayerToRoom: the error thrown ("" when none) and the rooms after
addPlayerToRoom(rs, roomCode, playerId) ==
    IF roomCode \notin DOMAIN rs
    THEN [err |-> "RoomNotFound", rooms |-> rs]
    ELSE LET r1 == touchRoom(rs, roomCode)
         IN  IF roomFull(r1[roomCode])
             THEN [err |-> "RoomFull", rooms |-> r1]
             ELSE IF SeqIndexOf(r1[roomCode].players, playerId) # 0
             THEN [err |-> "DuplicatePlayer", rooms |-> r1]
             ELSE [err |-> "",
                   rooms |-> [r1 EXCEPT ![roomCode].players = Append(@, playerId),
                                        ![roomCode].scores = (playerId :> 0) @@ @]]

\* delete obj[key]
DeleteKey(obj, key) == [k \in DOMAIN obj \ {key} |-> obj[k]]

\* A removal that splices at the index findIndex returned, found or not:
\* splice(-1, 1) takes the last element
spliceWithoutCheck(rs, roomCode, playerId) ==
    IF roomCode \notin DOMAIN rs THEN rs
    ELSE LET r1 == touchRoom(rs, roomCode)
             playerIndex == SeqIndexOf(r1[roomCode].players, playerId)
             at == IF playerIndex = 0 THEN Len(r1[roomCode].players) ELSE playerIndex
         IN  IF at = 0 THEN r1
             ELSE [r1 EXCEPT ![roomCode].players = SeqRemoveAt(@, at),
                             ![roomCode].scores = DeleteKey(@, playerId)]

\* RoomManager.removePlayerFromRoom
removePlayerFromRoom(rs, roomCode, playerId) ==
    IF roomCode \notin DOMAIN rs THEN rs
    ELSE LET r1 == touchRoom(rs, roomCode)
             playerIndex == SeqIndexOf(r1[roomCode].players, playerId)
         IN  IF playerIndex = 0 THEN r1
             ELSE [r1 EXCEPT ![roomCode].players = SeqRemoveAt(@, playerIndex),
                             ![roomCode].scores = DeleteKey(@, playerId)]

\* RoomManager.findRoomByPlayerId: the first room, in insertion order of the
\* Map, that lists the player; NoRoom when none.  A socket is listed by at most one
\* room, so the order of the Map does not show.
findRoomByPlayerId(rs, playerId) ==
    IF \E c \in DOMAIN rs : SeqIndexOf(rs[c].players, playerId) # 0
    THEN CHOOSE c \in DOMAIN rs : SeqIndexOf(rs[c].players, playerId) # 0
    ELSE NoRoom

\* RoomManager.closeRoom
closeRoom(rs, roomCode) ==
    [c \in DOMAIN rs \ {roomCode} |-> rs[c]]

\* RoomManager.updateRoomStatus
updateRoomStatus(rs, roomCode, newStatus) ==
    IF roomCode \notin DOMAIN rs THEN rs
    ELSE [touchRoom(rs, roomCode) EXCEPT ![roomCode].status = newStatus]

maxInactiveTime == 2 * 60 * 60 * 1000    \* cleanupInactiveRooms, milliseconds
cleanupInterval == 30 * 60 * 1000        \* startCleanupInterval, milliseconds

\* A sweep that looks at waiting rooms only
cleanupWaitingRooms(rs, at) ==
    LET kept == { c \in DOMAIN rs :
                    ~(rs[c].status = "waiting" /\ at - rs[c].lastActivity > maxInactiveTime) }
    IN  [c \in kept |-> rs[c]]

\* RoomManager.cleanupInactiveRooms at the time new Date() reads: the rooms after
cleanupInactiveRooms(rs, at) ==
    LET kept == { c \in DOMAIN rs : ~(at - rs[c].lastActivity > maxInactiveTime) }
    IN  [c \in kept |-> rs[c]]

-----------------------------------------------------------------------------
(* GameLogic *)

sessionDefaultTotalQuestions == 10
sessionDefaultQuestionTime == 30

\* Array.prototype.sort with a consistent comparator is a stable sort:
\* before[i, j] says the comparator puts sq[i] strictly before sq[j]
StableSort(sq, before) ==
    LET Insert(acc, n) ==
            LET k == Cardinality({i \in DOMAIN acc : ~before[n, acc[i]]})
            IN  SubSeq(acc, 1, k) \o <<n>> \o SubSeq(acc, k + 1, Len(acc))
        sorted[n \in 0..Len(sq)] ==
            IF n = 0 THEN <<>> ELSE Insert(sorted[n - 1], n)
    IN  [i \in DOMAIN sq |-> sq[sorted[Len(sq)][i]]]

\* currentQuestion before the first setCurrentQuestion (null)
NoQuestion ==
    [id |-> 0, question |-> "", correctAnswer |-> StrVal(<<>>),
     category |-> "", difficulty |-> ""]

\* No timer handle (null)
NoTimer == [kind |-> "none"]

\* clearTimeout on the pending callbacks: the callback of the handle is dropped
clearTimeout(pending, handle) ==
    IF handle # NoTimer /\ BagIn(handle, pending)
    THEN pending (-) SetToBag({handle}) ELSE pending

\* GameLogic.initializeGame(roomCode, players, gameSettings = {}) with the
\* question set generateQuestionSet returned; roster holds the names of players
initializeGame(roomCode, playerIds, gameSettings, questions, roster) ==
    [roomCode |-> roomCode,
     players |-> [i \in DOMAIN playerIds |->
                    [id |-> playerIds[i], name |-> roster[playerIds[i]].name]],
     settings |->
        [totalQuestions |->
            IF "totalQuestions" \in DOMAIN gameSettings /\ gameSettings.totalQuestions # 0
            THEN gameSettings.totalQuestions ELSE sessionDefaultTotalQuestions,
         questionTime |->
            IF "questionTime" \in DOMAIN gameSettings /\ gameSettings.questionTime # 0
            THEN gameSettings.questionTime ELSE sessionDefaultQuestionTime],
     status |-> "starting",
     currentQuestionIndex |-> 0,
     currentQuestion |-> NoQuestion,
     questions |-> questions,
     currentRoundAnswers |-> <<>>,
     allAnswersReceived |-> FALSE,
     playerScores |-> [i \in DOMAIN playerIds |-> [playerId |-> playerIds[i], score |-> 0]],
     roundResults |-> <<>>,
     questionTimer |-> NoTimer,
     resultTimer |-> NoTimer,
     questionStartedAt |-> 0,
     gameStats |-> [totalQuestionsAnswered |-> 0, fastestResponse |-> -1,
                    slowestResponse |-> -1]]

\* GameLogic.setCurrentQuestion on an existing session
setCurrentQuestion(session, question) ==
    [session EXCEPT !.currentQuestion = question,
                    !.questionStartedAt = now,
                    !.status = "playing",
                    !.currentRoundAnswers = <<>>,
                    !.allAnswersReceived = FALSE]

\* Map.has / Map.get / Map.set on a Map kept in insertion order
HasAnswer(session, playerId) ==
    \E i \in DOMAIN session.currentRoundAnswers :
        session.currentRoundAnswers[i].playerId = playerId

ScoreOf(playerScores, playerId) ==
    IF \E i \in DOMAIN playerScores : playerScores[i].playerId = playerId
    THEN playerScores[CHOOSE i \in DOMAIN playerScores :
                          playerScores[i].playerId = playerId].score
    ELSE 0

SetScore(playerScores, playerId, score) ==
    IF \E i \in DOMAIN playerScores : playerScores[i].playerId = playerId
    THEN [i \in DOMAIN playerScores |->
            IF playerScores[i].playerId = playerId
            THEN [playerId |-> playerId, score |-> score] ELSE playerScores[i]]
    ELSE Append(playerScores, [playerId |-> playerId, score |-> score])

\* GameLogic.updateGameStats (null is -1; !x holds of null and of 0)
updateGameStats(gameStats, responseTime) ==
    [totalQuestionsAnswered |-> gameStats.totalQuestionsAnswered + 1,
     fastestResponse |->
        IF gameStats.fastestResponse <= 0 \/ responseTime < gameStats.fastestResponse
        THEN responseTime ELSE gameStats.fastestResponse,
     slowestResponse |->
        IF gameStats.slowestResponse <= 0 \/ responseTime > gameStats.slowestResponse
        THEN responseTime ELSE gameStats.slowestResponse]

\* A barrier that waits for one answer more than the session has players
moreThanAll(answers, sessionPlayers) == Len(answers) > Len(sessionPlayers)

\* A check that never finds an earlier answer
neverAnswered(session, playerId) == FALSE

\* The all-answered check of processAnswer
allAnswered(answers, sessionPlayers) == Len(answers) >= Len(sessionPlayers)

\* A check that takes every session as collecting answers
alwaysPlaying(session) == FALSE

\* The status check of processAnswer
notPlaying(session) == session.status # "playing"

\* The already-answered check of processAnswer
alreadyAnswered(session, playerId) == HasAnswer(session, playerId)

\* An outcome whose latency is what the client's timeRemaining leaves of the
\* time limit, in milliseconds
latencyFromClient(question, answer, timeRemaining, maxTime, responseTime) ==
    LET isCorrect == checkAnswer(question, answer)
    IN  [isCorrect |-> isCorrect,
         responseTime |-> (maxTime - timeRemaining) * 1000,
         pointsEarned |-> IF isCorrect
                          THEN calculateQuestionPoints(timeRemaining, maxTime,
                                   responseTime, question.difficulty)
                          ELSE 0]

\* What processAnswer derives for an answer: its correctness, the latency
\* measured by calculateResponseTime, and the points
answerOutcome(question, answer, timeRemaining, maxTime, responseTime) ==
    LET isCorrect == checkAnswer(question, answer)
    IN  [isCorrect |-> isCorrect,
         responseTime |-> responseTime,
         pointsEarned |-> IF isCorrect
                          THEN calculateQuestionPoints(timeRemaining, maxTime,
                                   responseTime, question.difficulty)
                          ELSE 0]

\* GameLogic.processAnswer: the error thrown ("" when none), the sessions
\* after, and the result returned
processAnswer(gs, roomCode, playerId, answer, timeRemaining) ==
    IF roomCode \notin DOMAIN gs
    THEN [err |-> "SessionNotFound", sessions |-> gs, isCorrect |-> FALSE, pointsEarned |-> 0]
    ELSE LET session == gs[roomCode] IN
    IF notPlaying(session)
    THEN [err |-> "NotPlaying", sessions |-> gs, isCorrect |-> FALSE, pointsEarned |-> 0]
    ELSE IF alreadyAnswered(session, playerId)
    THEN [err |-> "DuplicateAnswer", sessions |-> gs, isCorrect |-> FALSE, pointsEarned |-> 0]
    ELSE IF session.currentQuestion = NoQuestion
    THEN [err |-> "NoActiveQuestion", sessions |-> gs, isCorrect |-> FALSE, pointsEarned |-> 0]
    ELSE
        LET currentQuestion == session.currentQuestion
            outcome == answerOutcome(currentQuestion, answer, timeRemaining,
                           session.settings.questionTime,
                           now - session.questionStartedAt)
            isCorrect == outcome.isCorrect
            points == outcome.pointsEarned
            answerData == [playerId |-> playerId, answer |-> answer,
                           isCorrect |-> isCorrect,
                           responseTime |-> outcome.responseTime,
                           timeRemaining |-> timeRemaining, pointsEarned |-> points]
            answers == Append(session.currentRoundAnswers, answerData)
            s1 == [session EXCEPT
                     !.currentRoundAnswers = answers,
                     !.playerScores =
                         SetScore(@, playerId, ScoreOf(@, playerId) + points),
                     !.gameStats = updateGameStats(@, outcome.responseTime),
                     !.allAnswersReceived = allAnswered(answers, session.players)]
        IN  [err |-> "", sessions |-> [gs EXCEPT ![roomCode] = s1],
             isCorrect |-> isCorrect, pointsEarned |-> points]

\* A barrier check that never reports the round complete
nobodyAnswered(gs, roomCode) == FALSE

\* GameLogic.allPlayersAnswered
allPlayersAnswered(gs, roomCode) ==
    IF roomCode \in DOMAIN gs THEN gs[roomCode].allAnswersReceived ELSE FALSE

\* A ranking that leaves the scores in the order of the map
rankingInMapOrder(session) ==
    [i \in DOMAIN session.playerScores |->
        LET e == session.playerScores[i]
        IN  [playerId |-> e.playerId,
             known |-> \E j \in DOMAIN session.players :
                          session.players[j].id = e.playerId,
             totalScore |-> e.score, rank |-> i]]

\* GameLogic.getOverallRanking
getOverallRanking(session) ==
    LET entries == [i \in DOMAIN session.playerScores |->
                      LET e == session.playerScores[i]
                          known == \E j \in DOMAIN session.players :
                                       session.players[j].id = e.playerId
                      IN  [playerId |-> e.playerId, known |-> known, totalScore |-> e.score]]
        before == [i, j \in DOMAIN entries |->
                      entries[i].totalScore > entries[j].totalScore]
        sorted == StableSort(entries, before)
    IN  [i \in DOMAIN sorted |->
            [playerId |-> sorted[i].playerId, known |-> sorted[i].known,
             totalScore |-> sorted[i].totalScore, rank |-> i]]

\* The round ranking of GameLogic.getRoundResults
roundRanking(session) ==
    LET answers == session.currentRoundAnswers
        Before(a, b) ==
            IF a.isCorrect # b.isCorrect THEN a.isCorrect
            ELSE IF a.pointsEarned # b.pointsEarned THEN a.pointsEarned > b.pointsEarned
            ELSE a.responseTime < b.responseTime
        before == [i, j \in DOMAIN answers |-> Before(answers[i], answers[j])]
        sorted == StableSort(answers, before)
    IN  [i \in DOMAIN sorted |->
            [rank |-> i, playerId |-> sorted[i].playerId,
             isCorrect |-> sorted[i].isCorrect,
             pointsEarned |-> sorted[i].pointsEarned,
             responseTime |-> sorted[i].responseTime,
             currentTotalScore |-> ScoreOf(session.playerScores, sorted[i].playerId)]]

\* The entry GameLogic.getRoundResults appends to session.roundResults; the
\* history keeps the entry's question number, question and head counts, and the
\* rankings go out with the round-results event
roundResultOf(session) ==
    [questionNumber |-> session.currentQuestionIndex + 1,
     question |-> session.currentQuestion,
     totalPlayers |-> Len(session.players),
     playersAnswered |-> Len(session.currentRoundAnswers)]

\* GameLogic.getRoundResults on an existing session
getRoundResults(session) ==
    [session EXCEPT !.roundResults = Append(@, roundResultOf(session)),
                    !.status = "showing_results"]

\* GameLogic.getNextQuestion on an existing session: the session after, and
\* the question number returned (0 for null)
getNextQuestion(session) ==
    LET s1 == [session EXCEPT !.currentQuestionIndex = @ + 1]
    IN  IF s1.currentQuestionIndex >= Len(s1.questions)
        THEN [session |-> [s1 EXCEPT !.status = "finished"], questionNumber |-> 0]
        ELSE [session |-> setCurrentQuestion(s1, s1.questions[s1.currentQuestionIndex + 1]),
              questionNumber |-> s1.currentQuestionIndex + 1]

\* GameLogic.getFinalResults on an existing session: the session after and the
\* final results
getFinalResults(session) ==
    LET s1 == [session EXCEPT !.status = "finished"]
        finalRanking == getOverallRanking(s1)
    IN  [session |-> s1,
         results |-> [totalQuestions |-> Len(s1.questions),
                      totalPlayers |-> Len(s1.players),
                      finalRanking |-> finalRanking,
                      winner |-> IF finalRanking = <<>> THEN <<>> ELSE <<finalRanking[1]>>,
                      roundHistory |-> s1.roundResults]]

\* GameLogic.closeGameSession: the sessions and the pending callbacks after
closeGameSession(gs, pending, roomCode) ==
    IF roomCode \notin DOMAIN gs
    THEN [sessions |-> gs, timers |-> pending]
    ELSE [sessions |-> [c \in DOMAIN gs \ {roomCode} |-> gs[c]],
          timers |-> clearTimeout(clearTimeout(pending, gs[roomCode].questionTimer),
                                  gs[roomCode].resultTimer)]

-----------------------------------------------------------------------------
(* Events and timers *)

\* An emitted event: to a socket (socket.emit, room NoRoom) or to a room
\* (io.to(room).emit, to 0)
Ev(type, to, room, data) == [type |-> type, to |-> to, room |-> room, data |-> data]

NoData == [k \in {} |-> 0]

\* socket.emit('error', ...); the model keeps the message, not the addressee
ErrorEv(socketId, message) == Ev("error", 0, NoRoom, [message |-> message])

\* An exception thrown inside a setTimeout callback reaches
\* process.on('uncaughtException')
UncaughtEv(roomCode, message) == Ev("uncaughtException", 0, roomCode, [message |-> message])

Emitted(type, roomCode) ==
    \E i \in DOMAIN out : out[i].type = type /\ out[i].room = roomCode

\* The setTimeout callbacks: of start-game (3000 ms) and of submit-answer (5000 ms)
FirstQuestionTimer(roomCode, question, timeLimit) ==
    [kind |-> "first", room |-> roomCode, question |-> question, timeLimit |-> timeLimit]
NextQuestionTimer(roomCode) ==
    [kind |-> "next", room |-> roomCode, question |-> NoQuestion, timeLimit |-> 0]

Schedule(t) == timers (+) SetToBag({t})
Pending == BagToSet(timers)

-----------------------------------------------------------------------------
(* Inputs of the events *)

NameChoices == { <<"A","n","a">>, <<"x">> }
WrongAnswer == StrVal(<<"0">>)

\* What a client sends with submit-answer: the right option of the question on
\* display in time or with a forged timeRemaining, or a wrong option
SubmitChoices(roomCode) ==
    LET right == IF roomCode \in DOMAIN gameSessions
                 THEN gameSessions[roomCode].currentQuestion.correctAnswer
                 ELSE WrongAnswer
    IN  { [answer |-> right, timeRemaining |-> 30],
          [answer |-> right, timeRemaining |-> -90],
          [answer |-> WrongAnswer, timeRemaining |-> 30] }

-----------------------------------------------------------------------------
(* The handlers of server.js *)

\* socket.on('create-room')
CreateRoom(socketId, playerName, gameSettings, draws) ==
    /\ socketId \notin gone
    /\  LET roomCode == generateRoomCode(rooms, draws)
            r1 == createRoom(rooms, roomCode, socketId, gameSettings)
            cp == createPlayer(players, socketId, playerName, TRUE)
            ap == addPlayerToRoom(r1, roomCode, socketId)
        IN  IF cp.err # ""
            THEN /\ rooms' = r1
                 /\ players' = players
                 /\ out' = <<ErrorEv(socketId, cp.err)>>
            ELSE IF ap.err # ""
            THEN /\ rooms' = ap.rooms
                 /\ players' = cp.players
                 /\ out' = <<ErrorEv(socketId, ap.err)>>
            ELSE /\ rooms' = ap.rooms
                 /\ players' = cp.players
                 /\ out' = <<Ev("room-created", socketId, NoRoom, [roomCode |-> roomCode])>>
    /\ UNCHANGED <<gameSessions, timers, gone, now, pure>>

\* socket.on('join-room')
JoinRoom(socketId, playerName, roomCode) ==
    /\ socketId \notin gone
    /\ IF roomCode \notin DOMAIN rooms
       THEN /\ out' = <<ErrorEv(socketId, "RoomNotFound")>>
            /\ UNCHANGED <<rooms, players>>
       ELSE LET r1 == touchRoom(rooms, roomCode)
                cp == createPlayer(players, socketId, playerName, FALSE)
                ap == addPlayerToRoom(r1, roomCode, socketId)
            IN  IF roomFull(r1[roomCode])
                THEN /\ rooms' = r1
                     /\ players' = players
                     /\ out' = <<ErrorEv(socketId, "RoomFull")>>
                ELSE IF cp.err # ""
                THEN /\ rooms' = r1
                     /\ players' = players
                     /\ out' = <<ErrorEv(socketId, cp.err)>>
                ELSE IF ap.err # ""
                THEN /\ rooms' = ap.rooms
                     /\ players' = cp.players
                     /\ out' = <<ErrorEv(socketId, ap.err)>>
                ELSE /\ rooms' = ap.rooms
                     /\ players' = cp.players
                     /\ out' = << Ev("room-joined", socketId, NoRoom, [roomCode |-> roomCode]),
                                  Ev("player-joined", 0, roomCode,
                                     [totalPlayers |-> Len(ap.rooms[roomCode].players)]) >>
    /\ UNCHANGED <<gameSessions, timers, gone, now, pure>>

\* The check of start-game that the initiator may start the game
mayStart(socketId, roomCode) ==
    socketId \in DOMAIN players /\ players[socketId].isHost

\* The players start-game needs
minPlayers == 2

\* socket.on('start-game')
StartGame(socketId, roomCode, firstQuestion) ==
    /\ socketId \notin gone
    /\ IF roomCode \notin DOMAIN rooms
       THEN /\ out' = <<ErrorEv(socketId, "RoomNotFound")>>
            /\ UNCHANGED <<rooms, gameSessions, timers>>
       ELSE LET r1 == touchRoom(rooms, roomCode)
                room == r1[roomCode]
            IN  /\ rooms' = r1
                /\ IF ~mayStart(socketId, roomCode)
                   THEN /\ out' = <<ErrorEv(socketId, "NotHost")>>
                        /\ UNCHANGED <<gameSessions, timers>>
                   ELSE IF Len(room.players) < minPlayers
                   THEN /\ out' = <<ErrorEv(socketId, "InsufficientPlayers")>>
                        /\ UNCHANGED <<gameSessions, timers>>
                   ELSE \E questions \in getQuestionSet(sessionDefaultTotalQuestions) :
                        LET s0 == initializeGame(roomCode, room.players, NoSettings,
                                                 questions, players)
                            s1 == setCurrentQuestion(s0, firstQuestion)
                        IN  /\ gameSessions' = (roomCode :> s1) @@ gameSessions
                            /\ timers' = Schedule(FirstQuestionTimer(roomCode,
                                             firstQuestion, room.settings.questionTime))
                            /\ out' = <<Ev("game-started", 0, roomCode,
                                           [totalQuestions |-> room.settings.totalQuestions])>>
    /\ UNCHANGED <<players, gone, now, pure>>

\* socket.on('submit-answer')
SubmitAnswer(socketId, roomCode, answer, timeRemaining) ==
    /\ socketId \notin gone
    /\ IF socketId \notin DOMAIN players
       THEN /\ out' = <<ErrorEv(socketId, "PlayerNotFound")>>
            /\ UNCHANGED <<players, gameSessions, timers>>
       ELSE LET result == processAnswer(gameSessions, roomCode, socketId, answer, timeRemaining)
            IN  IF result.err # ""
                THEN /\ out' = <<ErrorEv(socketId, result.err)>>
                     /\ UNCHANGED <<players, gameSessions, timers>>
                ELSE LET \* playerManager.updatePlayerScore(player.id, result.pointsEarned)
                         pl == updatePlayerScore(players[socketId], result.pointsEarned,
                                                 TRUE, 0, "", "medium")
                         answerResult ==
                             Ev("answer-result", socketId, roomCode,
                                [correct |-> result.isCorrect,
                                 pointsEarned |-> result.pointsEarned,
                                 totalScore |-> pl.score])
                         session == result.sessions[roomCode]
                     IN  /\ players' = [players EXCEPT ![socketId] = pl]
                         /\ IF allPlayersAnswered(result.sessions, roomCode)
                            THEN /\ gameSessions' =
                                      [result.sessions EXCEPT ![roomCode] = getRoundResults(@)]
                                 /\ out' = << answerResult,
                                              Ev("round-results", 0, roomCode,
                                                 [questionNumber |-> roundResultOf(session).questionNumber,
                                                  roundRanking |-> roundRanking(session),
                                                  overallRanking |-> getOverallRanking(session)]) >>
                                 /\ timers' = Schedule(NextQuestionTimer(roomCode))
                            ELSE /\ gameSessions' = result.sessions
                                 /\ out' = <<answerResult>>
                                 /\ timers' = timers
    /\ UNCHANGED <<rooms, gone, now, pure>>

\* The callback start-game scheduled: the first question goes out
FireFirstQuestion(t) ==
    /\ t \in Pending /\ t.kind = "first"
    /\ timers' = timers (-) SetToBag({t})
    /\ out' = <<Ev("new-question", 0, t.room,
                   [question |-> t.question, questionNumber |-> 1,
                    timeLimit |-> t.timeLimit])>>
    /\ UNCHANGED <<rooms, players, gameSessions, gone, now, pure>>

\* The callback submit-answer scheduled: the next question, or the end of the game
FireNextQuestion(t) ==
    /\ t \in Pending /\ t.kind = "next"
    /\ timers' = timers (-) SetToBag({t})
    /\ IF t.room \notin DOMAIN gameSessions
       THEN \* getNextQuestion returns null, getFinalResults throws
            /\ out' = <<UncaughtEv(t.room, "SessionNotFound")>>
            /\ UNCHANGED <<rooms, gameSessions>>
       ELSE LET next == getNextQuestion(gameSessions[t.room])
                final == getFinalResults(next.session)
            IN  IF next.questionNumber # 0
                THEN /\ gameSessions' = [gameSessions EXCEPT ![t.room] = next.session]
                     /\ IF t.room \in DOMAIN rooms
                        THEN /\ rooms' = touchRoom(rooms, t.room)
                             /\ out' = <<Ev("new-question", 0, t.room,
                                            [question |-> next.session.currentQuestion,
                                             questionNumber |-> next.questionNumber,
                                             timeLimit |-> rooms[t.room].settings.questionTime])>>
                        ELSE \* roomManager.getRoom(roomCode) is null: TypeError
                             /\ rooms' = rooms
                             /\ out' = <<UncaughtEv(t.room, "TypeError")>>
                ELSE /\ gameSessions' = [gameSessions EXCEPT ![t.room] = final.session]
                     /\ rooms' = rooms
                     /\ out' = <<Ev("game-finished", 0, t.room, final.results)>>
    /\ UNCHANGED <<players, gone, now, pure>>

\* socket.on('disconnect')
Disconnect(socketId) ==
    /\ socketId \notin gone
    /\ gone' = gone \cup {socketId}
    /\ IF socketId \notin DOMAIN players
       THEN /\ out' = <<>>
            /\ UNCHANGED <<rooms, players>>
       ELSE LET player == players[socketId]
                roomCode == findRoomByPlayerId(rooms, socketId)
            IN  IF roomCode = NoRoom
                THEN /\ rooms' = rooms
                     /\ players' = removePlayer(players, socketId)
                     /\ out' = <<>>
                ELSE LET r1 == removePlayerFromRoom(rooms, roomCode, socketId)
                         left == r1[roomCode].players
                         disconnected ==
                             Ev("player-disconnected", 0, roomCode,
                                [totalPlayers |-> Len(left)])
                     IN  IF player.isHost /\ Len(left) > 0
                         THEN /\ rooms' = r1
                              /\ players' = removePlayer(setAsHost(players, left[1]), socketId)
                              /\ out' = << disconnected,
                                           Ev("host-changed", 0, roomCode, [newHost |-> left[1]]) >>
                         ELSE IF player.isHost
                         THEN /\ rooms' = closeRoom(r1, roomCode)
                              /\ players' = removePlayer(players, socketId)
                              /\ out' = <<disconnected>>
                         ELSE /\ rooms' = r1
                              /\ players' = removePlayer(players, socketId)
                              /\ out' = <<disconnected>>
    /\ UNCHANGED <<gameSessions, timers, now, pure>>

-----------------------------------------------------------------------------
(* The server: every event of every socket, and the pending callbacks *)

EmptyMap == [k \in {} |-> 0]
PureIdle == [fn |-> "none"]

Init ==
    /\ rooms = EmptyMap
    /\ players = EmptyMap
    /\ gameSessions = EmptyMap
    /\ timers = EmptyBag
    /\ gone = {}
    /\ out = <<>>
    /\ now = 0
    /\ pure = PureIdle

ValidName == <<"A", "n", "a">>

\* The model stops a roster record's accepted answers at MaxAnswers (a
\* resubmission within the round still goes through) and the pending callbacks
\* at MaxTimers
MayAnswer(socketId, roomCode) ==
    socketId \in DOMAIN players =>
        \/ players[socketId].totalQuestions < MaxAnswers
        \/ /\ roomCode \in DOMAIN gameSessions
           /\ HasAnswer(gameSessions[roomCode], socketId)
           /\ players[socketId].totalQuestions <= MaxAnswers
TimerRoom == BagCardinality(timers) < MaxTimers

\* Rounds: the sockets of one room create, join, start, answer and leave
Next ==
    \/ \E socketId \in Conns, draws \in Draws(rooms, Codes) :
          CreateRoom(socketId, ValidName, NoSettings, draws)
    \/ \E socketId \in Conns, roomCode \in Codes :
          JoinRoom(socketId, ValidName, roomCode)
    \/ \E socketId \in Conns, roomCode \in Codes, firstQuestion \in QuestionPool :
          TimerRoom /\ StartGame(socketId, roomCode, firstQuestion)
    \/ \E socketId \in Conns, roomCode \in Codes :
          \E c \in SubmitChoices(roomCode) :
             TimerRoom /\ MayAnswer(socketId, roomCode)
                 /\ SubmitAnswer(socketId, roomCode, c.answer, c.timeRemaining)
    \/ \E t \in Pending : FireFirstQuestion(t)
    \/ \E t \in Pending : FireNextQuestion(t)
    \/ \E socketId \in Conns : Disconnect(socketId)

Spec == Init /\ [][Next]_vars

-----------------------------------------------------------------------------
(* The scoring functions on their own: the arguments are drawn at the start,
   then each function is applied to them once *)

MaxTimeChoices == {10, 30}
TimeRemainingChoices == {-90, -15, 0, 7, 15, 30, 60}

ScoringArgs ==
    [difficulty : Difficulties, maxTime : MaxTimeChoices,
     timeRemaining : TimeRemainingChoices, streak : 0..MaxStreakIn,
     calls : {{}}, questionPoints : {0}, points : {0}]

InitScoring ==
    /\ rooms = EmptyMap
    /\ players = EmptyMap
    /\ gameSessions = EmptyMap
    /\ timers = EmptyBag
    /\ gone = {}
    /\ out = <<>>
    /\ now = 0
    /\ pure \in ScoringArgs

\* processAnswer's call: calculateQuestionPoints(timeRemaining,
\* session.settings.questionTime, responseTime, currentQuestion.difficulty)
CalculateQuestionPoints ==
    /\ "calculateQuestionPoints" \notin pure.calls
    /\ pure' = [pure EXCEPT
                  !.calls = @ \cup {"calculateQuestionPoints"},
                  !.questionPoints =
                      calculateQuestionPoints(pure.timeRemaining, pure.maxTime, 0,
                                              pure.difficulty)]
    /\ UNCHANGED <<rooms, players, gameSessions, timers, gone, out, now>>

\* PlayerManager.calculatePoints(timeRemaining, maxTime, streak, difficulty)
CalculatePoints ==
    /\ "calculatePoints" \notin pure.calls
    /\ pure' = [pure EXCEPT
                  !.calls = @ \cup {"calculatePoints"},
                  !.points = calculatePoints(pure.timeRemaining, pure.maxTime,
                                             pure.streak, pure.difficulty)]
    /\ UNCHANGED <<rooms, players, gameSessions, timers, gone, out, now>>

NextScoring == CalculateQuestionPoints \/ CalculatePoints

SpecScoring == InitScoring /\ [][NextScoring]_vars

-----------------------------------------------------------------------------
(* The lobby: more sockets and rooms, any name and settings, games that start
   and are not played *)

NextLobby ==
    \/ \E socketId \in LobbyConns, playerName \in NameChoices,
          gameSettings \in SettingsChoices, draws \in Draws(rooms, LobbyCodes) :
          CreateRoom(socketId, playerName, gameSettings, draws)
    \/ \E socketId \in LobbyConns, playerName \in NameChoices, roomCode \in LobbyCodes :
          JoinRoom(socketId, playerName, roomCode)
    \/ \E socketId \in LobbyConns, roomCode \in LobbyCodes :
          TimerRoom /\ StartGame(socketId, roomCode, QuestionEasy)
    \/ \E t \in Pending : FireFirstQuestion(t)
    \/ \E socketId \in LobbyConns : Disconnect(socketId)

SpecLobby == Init /\ [][NextLobby]_vars

-----------------------------------------------------------------------------
(* One game played to its end: a room of SmallRoom settings, one start, every
   player of the session answers every question once (the first socket always
   with the right option), nobody leaves *)

\* What a client sends within the time limit it was told
HonestChoices(socketId, roomCode) ==
    { c \in SubmitChoices(roomCode) :
         /\ c.timeRemaining >= 0 /\ c.timeRemaining <= sessionDefaultQuestionTime
         /\ socketId = 1 => c.answer # WrongAnswer }

Answers(socketId, roomCode) ==
    /\ roomCode \in DOMAIN gameSessions
    /\ gameSessions[roomCode].status = "playing"
    /\ FirstQuestionTimer(roomCode, gameSessions[roomCode].currentQuestion,
                          SmallRoom.questionTime) \notin Pending
    /\ \E i \in DOMAIN gameSessions[roomCode].players :
          gameSessions[roomCode].players[i].id = socketId
    /\ ~HasAnswer(gameSessions[roomCode], socketId)

NextGame ==
    \/ \E socketId \in Conns, draws \in Draws(rooms, Codes) :
          CreateRoom(socketId, ValidName, SmallRoom, draws)
    \/ \E socketId \in Conns, roomCode \in Codes :
          socketId \notin DOMAIN players /\ JoinRoom(socketId, ValidName, roomCode)
    \/ \E socketId \in Conns, roomCode \in Codes, firstQuestion \in QuestionPool :
          roomCode \notin DOMAIN gameSessions
              /\ StartGame(socketId, roomCode, firstQuestion)
    \/ \E socketId \in Conns, roomCode \in Codes :
          \E c \in HonestChoices(socketId, roomCode) :
             Answers(socketId, roomCode)
                 /\ SubmitAnswer(socketId, roomCode, c.answer, c.timeRemaining)
    \/ \E t \in Pending : FireFirstQuestion(t)
    \/ \E t \in Pending : FireNextQuestion(t)

SpecGame == Init /\ [][NextGame]_vars

\* A player of a session owes an answer to the question on display
AnswerOwed ==
    \E socketId \in Conns, roomCode \in Codes : Answers(socketId, roomCode)

\* A player sends the answer it owes
SubmitStep ==
    \E socketId \in Conns, roomCode \in Codes :
       \E c \in HonestChoices(socketId, roomCode) :
          Answers(socketId, roomCode)
              /\ SubmitAnswer(socketId, roomCode, c.answer, c.timeRemaining)

\* The same game when the callbacks of setTimeout run and every player of the
\* session sends the answer it owes.  The last conjunct is weak fairness of
\* SubmitStep, written out: SubmitStep is enabled exactly when AnswerOwed holds
SpecGameLive ==
    /\ SpecGame
    /\ WF_vars(\E t \in Pending : FireFirstQuestion(t))
    /\ WF_vars(\E t \in Pending : FireNextQuestion(t))
    /\ ([]<>(~AnswerOwed) \/ []<><<SubmitStep>>_vars)

\* The session of a code is not collecting answers: there is none, or it is
\* showing results or finished
NotCollecting(roomCode) ==
    IF roomCode \in DOMAIN gameSessions
    THEN gameSessions[roomCode].status \in {"showing_results", "finished"}
    ELSE TRUE

\* A game played to its end, with answers that arrive outside the rounds
NextLate ==
    \/ NextGame
    \/ \E socketId \in Conns, roomCode \in Codes :
          \E c \in SubmitChoices(roomCode) :
             NotCollecting(roomCode)
                 /\ SubmitAnswer(socketId, roomCode, c.answer, c.timeRemaining)

SpecLate == Init /\ [][NextLate]_vars

\* Rounds with a third socket: it joins the room after the game started, or
\* sits in another room, and answers too; nobody leaves
NextOutsider ==
    \/ \E socketId \in LobbyConns, draws \in Draws(rooms, LobbyCodes) :
          socketId \notin DOMAIN players
              /\ CreateRoom(socketId, ValidName, NoSettings, draws)
    \/ \E socketId \in LobbyConns, roomCode \in LobbyCodes :
          socketId \notin DOMAIN players /\ JoinRoom(socketId, ValidName, roomCode)
    \/ \E socketId \in LobbyConns, roomCode \in LobbyCodes :
          roomCode \notin DOMAIN gameSessions
              /\ StartGame(socketId, roomCode, QuestionEasy)
    \/ \E socketId \in LobbyConns, roomCode \in LobbyCodes :
          \E c \in HonestChoices(socketId, roomCode) :
             TimerRoom /\ MayAnswer(socketId, roomCode)
                 /\ SubmitAnswer(socketId, roomCode, c.answer, c.timeRemaining)
    \/ \E t \in Pending : FireFirstQuestion(t)
    \/ \E t \in Pending : FireNextQuestion(t)

SpecOutsider == Init /\ [][NextOutsider]_vars

\* The clock of new Date() advances
Tick ==
    /\ now < MaxNow
    /\ now' = now + 1
    /\ out' = <<>>
    /\ UNCHANGED <<rooms, players, gameSessions, timers, gone, pure>>

\* Rounds on the clock: the players of one room answer at different times;
\* nobody leaves and the game is started once
NextTimed ==
    \/ \E socketId \in Conns, draws \in Draws(rooms, Codes) :
          socketId \notin DOMAIN players
              /\ CreateRoom(socketId, ValidName, NoSettings, draws)
    \/ \E socketId \in Conns, roomCode \in Codes :
          socketId \notin DOMAIN players /\ JoinRoom(socketId, ValidName, roomCode)
    \/ \E socketId \in Conns, roomCode \in Codes, firstQuestion \in QuestionPool :
          roomCode \notin DOMAIN gameSessions
              /\ StartGame(socketId, roomCode, firstQuestion)
    \/ \E socketId \in Conns, roomCode \in Codes :
          \E c \in HonestChoices(socketId, roomCode) :
             TimerRoom /\ MayAnswer(socketId, roomCode)
                 /\ SubmitAnswer(socketId, roomCode, c.answer, c.timeRemaining)
    \/ \E t \in Pending : FireFirstQuestion(t)
    \/ \E t \in Pending : FireNextQuestion(t)
    \/ Tick

SpecTimed == Init /\ [][NextTimed]_vars

\* Rounds on the clock with clients that report any timeRemaining: the
\* players of one room answer at different times, in time or with a forged
\* timeRemaining; nobody leaves and the game is started once
NextForged ==
    \/ \E socketId \in Conns, draws \in Draws(rooms, Codes) :
          socketId \notin DOMAIN players
              /\ CreateRoom(socketId, ValidName, NoSettings, draws)
    \/ \E socketId \in Conns, roomCode \in Codes :
          socketId \notin DOMAIN players /\ JoinRoom(socketId, ValidName, roomCode)
    \/ \E socketId \in Conns, roomCode \in Codes, firstQuestion \in QuestionPool :
          roomCode \notin DOMAIN gameSessions
              /\ StartGame(socketId, roomCode, firstQuestion)
    \/ \E socketId \in Conns, roomCode \in Codes :
          \E c \in SubmitChoices(roomCode) :
             TimerRoom /\ MayAnswer(socketId, roomCode)
                 /\ SubmitAnswer(socketId, roomCode, c.answer, c.timeRemaining)
    \/ \E t \in Pending : FireFirstQuestion(t)
    \/ \E t \in Pending : FireNextQuestion(t)
    \/ Tick

SpecForged == Init /\ [][NextForged]_vars

\* roomManager.removePlayerFromRoom(roomCode, playerId) called on its own; pure
\* holds the call and the value returned
RemovePlayerFromRoom(roomCode, playerId) ==
    /\ rooms' = removePlayerFromRoom(rooms, roomCode, playerId)
    /\ pure' = [fn |-> "removePlayerFromRoom", roomCode |-> roomCode,
                playerId |-> playerId,
                returned |-> IF roomCode \in DOMAIN rooms
                             THEN SeqIndexOf(rooms[roomCode].players, playerId) # 0
                             ELSE FALSE]
    /\ out' = <<>>
    /\ UNCHANGED <<players, gameSessions, timers, gone, now>>

\* playerManager.removePlayer(playerId) called on its own
RemovePlayer(playerId) ==
    /\ players' = removePlayer(players, playerId)
    /\ pure' = [fn |-> "removePlayer", roomCode |-> NoRoom, playerId |-> playerId,
                returned |-> playerId \in DOMAIN players]
    /\ out' = <<>>
    /\ UNCHANGED <<rooms, gameSessions, timers, gone, now>>

\* The managers on their own: players are created and added to a room, and
\* removed from rooms and from the roster in any order, any number of times
NextRemove ==
    \/ \E socketId \in LobbyConns, draws \in Draws(rooms, Codes) :
          socketId \notin DOMAIN players
              /\ CreateRoom(socketId, ValidName, NoSettings, draws)
    \/ \E socketId \in LobbyConns, roomCode \in Codes :
          socketId \notin DOMAIN players /\ JoinRoom(socketId, ValidName, roomCode)
    \/ \E roomCode \in LobbyCodes, playerId \in LobbyConns :
          RemovePlayerFromRoom(roomCode, playerId)
    \/ \E playerId \in LobbyConns : RemovePlayer(playerId)

SpecRemove == Init /\ [][NextRemove]_vars

\* roomManager.updateRoomStatus(roomCode, newStatus) called on its own
UpdateRoomStatus(roomCode, newStatus) ==
    /\ rooms' = updateRoomStatus(rooms, roomCode, newStatus)
    /\ out' = <<>>
    /\ UNCHANGED <<players, gameSessions, timers, gone, now, pure>>

\* The cleanup interval elapses and its callback runs cleanupInactiveRooms;
\* pure holds the call and the number of rooms it returned
CleanupInterval ==
    /\ now < MaxSweeps * cleanupInterval
    /\ now' = now + cleanupInterval
    /\ rooms' = cleanupInactiveRooms(rooms, now')
    /\ pure' = [fn |-> "cleanupInactiveRooms",
                returned |-> Cardinality(DOMAIN rooms \ DOMAIN rooms')]
    /\ out' = <<>>
    /\ UNCHANGED <<players, gameSessions, timers, gone>>

\* The lobby over hours: rooms are created, joined, left and change status
\* between the runs of the cleanup interval
NextSweep ==
    \/ \E socketId \in LobbyConns, draws \in Draws(rooms, LobbyCodes) :
          socketId \notin DOMAIN players
              /\ CreateRoom(socketId, ValidName, NoSettings, draws)
    \/ \E socketId \in LobbyConns, roomCode \in LobbyCodes :
          socketId \notin DOMAIN players /\ JoinRoom(socketId, ValidName, roomCode)
    \/ \E roomCode \in LobbyCodes, newStatus \in {"playing", "finished"} :
          roomCode \in DOMAIN rooms /\ rooms[roomCode].status # newStatus
              /\ UpdateRoomStatus(roomCode, newStatus)
    \/ \E socketId \in LobbyConns : Disconnect(socketId)
    \/ CleanupInterval

SpecSweep == Init /\ [][NextSweep]_vars

\* Names a client may send: valid ones, bare or padded or of the greatest
\* length, and invalid ones: too short, too short once trimmed, with a
\* character that is not allowed, too long, empty
LongestName == [i \in 1..20 |-> "a"]
ValidNames == { <<"A", "n", "a">>, <<" ", "A", "n", "a", " ">>, LongestName }
InvalidNames ==
    { <<"x">>, <<" ", "x", " ">>, <<"a", "!">>, LongestName \o <<"a">>, <<>> }
NameInputs == ValidNames \cup InvalidNames

\* What the last call of a PlayerManager method was and what it threw
PlayerCall(fn, playerId, err, isCorrect) ==
    [fn |-> fn, playerId |-> playerId, err |-> err, isCorrect |-> isCorrect]

\* playerManager.createPlayer(socketId, playerName, isHost) called on its own
CreatePlayer(socketId, playerName) ==
    LET cp == createPlayer(players, socketId, playerName, socketId = 1)
    IN  /\ players' = cp.players
        /\ pure' = PlayerCall("createPlayer", socketId, cp.err, FALSE)
        /\ out' = <<>>
        /\ UNCHANGED <<rooms, gameSessions, timers, gone, now>>

\* playerManager.updatePlayerScore(playerId, points, isCorrect) called on its
\* own, with the points of a right or of a wrong answer
UpdatePlayerScore(playerId, isCorrect) ==
    /\ IF playerId \notin DOMAIN players
       THEN /\ players' = players
            /\ pure' = PlayerCall("updatePlayerScore", playerId,
                                  "PlayerNotFound", isCorrect)
       ELSE /\ players[playerId].totalQuestions < MaxUpdates
            /\ players' = [players EXCEPT ![playerId] =
                              updatePlayerScore(@, IF isCorrect THEN 100 ELSE 0,
                                                isCorrect, 0, "", "medium")]
            /\ pure' = PlayerCall("updatePlayerScore", playerId, "", isCorrect)
    /\ out' = <<>>
    /\ UNCHANGED <<rooms, gameSessions, timers, gone, now>>

\* playerManager.resetPlayerGameStats(playerId) called on its own
ResetPlayerGameStats(playerId) ==
    /\ players' = IF playerId \in DOMAIN players
                  THEN [players EXCEPT ![playerId] = resetPlayerGameStats(@)]
                  ELSE players
    /\ pure' = PlayerCall("resetPlayerGameStats", playerId, "", FALSE)
    /\ out' = <<>>
    /\ UNCHANGED <<rooms, gameSessions, timers, gone, now>>

\* The roster on its own: players are created, scored and reset
NextPlayers ==
    \/ \E socketId \in Conns, playerName \in NameInputs :
          CreatePlayer(socketId, playerName)
    \/ \E playerId \in Conns, isCorrect \in BOOLEAN :
          UpdatePlayerScore(playerId, isCorrect)
    \/ \E playerId \in Conns : ResetPlayerGameStats(playerId)

SpecPlayers == Init /\ [][NextPlayers]_vars

\* Rounds with restarts: the host may send start-game again at any time, the
\* players of the room answer in time; nobody leaves
NextRestart ==
    \/ \E socketId \in Conns, draws \in Draws(rooms, Codes) :
          socketId \notin DOMAIN players
              /\ CreateRoom(socketId, ValidName, NoSettings, draws)
    \/ \E socketId \in Conns, roomCode \in Codes :
          socketId \notin DOMAIN players /\ JoinRoom(socketId, ValidName, roomCode)
    \/ \E socketId \in Conns, roomCode \in Codes :
          TimerRoom /\ StartGame(socketId, roomCode, QuestionEasy)
    \/ \E socketId \in Conns, roomCode \in Codes :
          \E c \in HonestChoices(socketId, roomCode) :
             /\ TimerRoom
             /\ socketId \in DOMAIN players
             /\ players[socketId].totalQuestions < MaxRounds
             /\ SubmitAnswer(socketId, roomCode, c.answer, c.timeRemaining)
    \/ \E t \in Pending : FireFirstQuestion(t)
    \/ \E t \in Pending : FireNextQuestion(t)

SpecRestart == Init /\ [][NextRestart]_vars

-----------------------------------------------------------------------------
(* Properties of the rounds *)

SessionIds(session) == { session.players[i].id : i \in DOMAIN session.players }

\* C1: round results are produced exactly when the answers recorded for the
\* round reach the number of players of the session: while the session collects
\* answers there are fewer, once it shows results there are as many, and the
\* round-results event goes out in the very step that records the last one
C1_ResultsExactlyAtBarrier ==
    \A roomCode \in DOMAIN gameSessions :
        LET session == gameSessions[roomCode]
        IN  /\ session.status = "playing" =>
                   Len(session.currentRoundAnswers) < Len(session.players)
            /\ session.status = "showing_results" =>
                   Len(session.currentRoundAnswers) = Len(session.players)
            /\ Emitted("round-results", roomCode) =>
                   /\ session.status = "showing_results"
                   /\ Len(session.roundResults) > 0
            /\ session.allAnswersReceived <=>
                   Len(session.currentRoundAnswers) = Len(session.players)

C1_Witness ==
    \E roomCode \in DOMAIN gameSessions :
        /\ Emitted("round-results", roomCode)
        /\ Len(gameSessions[roomCode].currentRoundAnswers) = 2
        /\ Len(gameSessions[roomCode].players) = 2

\* C2: when a player of the session has disconnected while the round collects
\* answers, the round does not go on waiting once every remaining player has
\* answered: a session still collecting answers has a remaining player without one
C2_BarrierFollowsDisconnect ==
    \A roomCode \in DOMAIN gameSessions :
        LET session == gameSessions[roomCode]
            remaining == SessionIds(session) \ gone
        IN  (/\ session.status = "playing"
             /\ remaining # SessionIds(session)
             /\ remaining # {})
            => \E playerId \in remaining : ~HasAnswer(session, playerId)

\* C3: within one round a player has at most one recorded answer, and a
\* submit-answer by a player whose answer the round already holds is rejected
\* with an error and changes neither the sessions (the recorded answer, the
\* answer count, the running scores) nor the roster records
C3_SecondAnswerRejected ==
    /\ [](\A roomCode \in DOMAIN gameSessions :
            LET answers == gameSessions[roomCode].currentRoundAnswers
            IN  \A i, j \in DOMAIN answers :
                    answers[i].playerId = answers[j].playerId => i = j)
    /\ [][\A socketId \in Conns, roomCode \in Codes :
            \A c \in SubmitChoices(roomCode) :
               (/\ socketId \in DOMAIN players
                /\ roomCode \in DOMAIN gameSessions
                /\ gameSessions[roomCode].status = "playing"
                /\ HasAnswer(gameSessions[roomCode], socketId)
                /\ SubmitAnswer(socketId, roomCode, c.answer, c.timeRemaining))
               => /\ out' = <<ErrorEv(socketId, "DuplicateAnswer")>>
                  /\ UNCHANGED <<gameSessions, players>>]_vars

C3_Witness ==
    /\ out = <<ErrorEv(0, "DuplicateAnswer")>>
    /\ \E roomCode \in DOMAIN gameSessions, socketId \in DOMAIN players :
          /\ gameSessions[roomCode].status = "playing"
          /\ HasAnswer(gameSessions[roomCode], socketId)
          /\ players[socketId].totalQuestions = 1

\* C4: after a submit-answer judged incorrect the points earned are 0 and the
\* streak of the answering player is 0
C4_WrongAnswerResetsStreak ==
    \A i \in DOMAIN out :
        (out[i].type = "answer-result" /\ ~out[i].data.correct)
        => /\ out[i].data.pointsEarned = 0
           /\ players[out[i].to].streak = 0

\* C5: every points delta added to a score by an accepted answer is greater
\* than or equal to 0, whatever timeRemaining the client reported
C5_PointsNeverNegative ==
    /\ \A roomCode \in DOMAIN gameSessions :
          \A i \in DOMAIN gameSessions[roomCode].currentRoundAnswers :
              gameSessions[roomCode].currentRoundAnswers[i].pointsEarned >= 0
    /\ \A i \in DOMAIN out :
          out[i].type = "answer-result" => out[i].data.pointsEarned >= 0

-----------------------------------------------------------------------------
(* Properties of the scoring functions *)

\* The scoring formula the design gives: base by difficulty, a speed bonus of up
\* to half the base on the clamped ratio timeRemaining / maxTime, and from a
\* streak of 3 a bonus of streak / 10, at most one half
canonicalPoints(difficulty, maxTime, timeRemaining, streak) ==
    LET base == (100 * difficultyMultipliers(difficulty)) \div 10
        clamped == Max(0, Min(timeRemaining, maxTime))
        subtotal == base + MathRound(base * clamped, 2 * maxTime)
    IN  IF streak >= 3
        THEN MathRound(subtotal * (10 + Min(streak, 5)), 10)
        ELSE subtotal

Scored == "calculateQuestionPoints" \in pure.calls

\* C6: for a timeRemaining within the time limit, the points of live scoring
\* are those of the design's formula on (difficulty, maxTime, timeRemaining,
\* streak), the streak bonus from a streak of 3 included
C6_LiveScoringIsCanonical ==
    (Scored /\ pure.timeRemaining >= 0 /\ pure.timeRemaining <= pure.maxTime)
    => pure.questionPoints =
          canonicalPoints(pure.difficulty, pure.maxTime, pure.timeRemaining, pure.streak)

\* C7: live scoring clamps the speed ratio to [0, 1]: the points are those of
\* timeRemaining brought into 0..maxTime, and lie between base and 1.5 x base
C7_SpeedRatioClamped ==
    Scored =>
       LET base == (basePoints * difficultyMultipliers(pure.difficulty)) \div 10
       IN  /\ pure.questionPoints =
                 calculateQuestionPoints(Max(0, Min(pure.timeRemaining, pure.maxTime)),
                                         pure.maxTime, 0, pure.difficulty)
           /\ pure.questionPoints >= base
           /\ 2 * pure.questionPoints <= 3 * base

\* C8: calculatePoints of the roster and calculateQuestionPoints of the session
\* return the same points on the same (difficulty, maxTime, timeRemaining, streak)
C8_OneScoringFormula ==
    (Scored /\ "calculatePoints" \in pure.calls) => pure.points = pure.questionPoints

-----------------------------------------------------------------------------
(* Properties of a whole game and of the lobby *)

\* C9: a game of a room configured with N questions, in which every player
\* answers every question, completes exactly N rounds: never more, it is not
\* back collecting answers after the N-th, and it finishes with a history of N
C9_GameOfConfiguredLength ==
    \A roomCode \in DOMAIN gameSessions \cap DOMAIN rooms :
        LET session == gameSessions[roomCode]
            N == rooms[roomCode].settings.totalQuestions
        IN  /\ Len(session.roundResults) <= N
            /\ Len(session.roundResults) = N => session.status # "playing"
            /\ session.status = "finished" => Len(session.roundResults) = N

\* C10: start-game starts a game only when the initiating connection is the
\* host of that room and the room has at least 2 players; any other start-game
\* creates or changes no session
C10_OnlyRoomHostStarts ==
    [][\A socketId \in LobbyConns, roomCode \in LobbyCodes :
          (StartGame(socketId, roomCode, QuestionEasy)
               /\ ~(/\ roomCode \in DOMAIN rooms
                    /\ socketId \in Range(rooms[roomCode].players)
                    /\ players[socketId].isHost
                    /\ Len(rooms[roomCode].players) >= minPlayers))
          => /\ gameSessions' = gameSessions
             /\ timers' = timers
             /\ \E message \in {"RoomNotFound", "NotHost", "InsufficientPlayers"} :
                   out' = <<ErrorEv(socketId, message)>>]_vars

-----------------------------------------------------------------------------
(* Properties of the rooms *)

Hosts(roomCode) ==
    { playerId \in Range(rooms[roomCode].players) :
         playerId \in DOMAIN players /\ players[playerId].isHost }

\* C11: every room that has at least one player has exactly one player whose
\* host flag is set
C11_ExactlyOneHost ==
    \A roomCode \in DOMAIN rooms :
        Len(rooms[roomCode].players) > 0 => Cardinality(Hosts(roomCode)) = 1

\* C12: a room never holds more players than its configured max players, and
\* a join-room sent when the room is at capacity fails with an error and leaves
\* the room's player list and the roster unchanged
C12_CapacityRespected ==
    /\ [](\A roomCode \in DOMAIN rooms :
            /\ rooms[roomCode].maxPlayers = rooms[roomCode].settings.maxPlayers
            /\ Len(rooms[roomCode].players) <= rooms[roomCode].maxPlayers)
    /\ [][\A socketId \in LobbyConns, playerName \in NameChoices, roomCode \in LobbyCodes :
            (/\ roomCode \in DOMAIN rooms
             /\ Len(rooms[roomCode].players) >= rooms[roomCode].settings.maxPlayers
             /\ JoinRoom(socketId, playerName, roomCode))
            => /\ out' = <<ErrorEv(socketId, "RoomFull")>>
               /\ rooms'[roomCode].players = rooms[roomCode].players
               /\ players' = players]_vars

C12_Witness ==
    /\ out = <<ErrorEv(0, "RoomFull")>>
    /\ \E roomCode \in DOMAIN rooms :
          /\ Len(rooms[roomCode].players) = rooms[roomCode].settings.maxPlayers
          /\ Len(rooms[roomCode].players) = SmallRoom.maxPlayers

\* RoomManager.isValidRoomCode (codes are always strings here)
isValidRoomCode(roomCode) ==
    /\ Len(roomCode) = 6
    /\ \A i \in DOMAIN roomCode : roomCode[i] \in Range(UpperChars) \cup Range(DigitChars)

\* C13: the code of every room is 6 characters of [A-Z0-9], and create-room
\* gives the new room a code that no live room has: every room that was live
\* stays as it was and one room is added
C13_CodesWellFormedAndFresh ==
    /\ [](\A roomCode \in DOMAIN rooms :
            isValidRoomCode(roomCode) /\ rooms[roomCode].code = roomCode)
    /\ [][\A socketId \in LobbyConns, playerName \in NameChoices,
            gameSettings \in SettingsChoices, draws \in Draws(rooms, LobbyCodes) :
            CreateRoom(socketId, playerName, gameSettings, draws)
            => /\ \A roomCode \in DOMAIN rooms :
                     roomCode \in DOMAIN rooms' /\ rooms'[roomCode] = rooms[roomCode]
               /\ Cardinality(DOMAIN rooms') = Cardinality(DOMAIN rooms) + 1]_vars

C13_Witness ==
    /\ Cardinality(DOMAIN rooms) = 2
    /\ \E i \in DOMAIN out : out[i].type = "room-created"
    /\ \A roomCode \in DOMAIN rooms : Len(rooms[roomCode].players) > 0

-----------------------------------------------------------------------------
(* Properties of the scheduled callbacks and of closing *)

\* The callback of a round whose room or session is gone, or whose session is
\* no longer showing the results of that round (advanced or restarted since)
Stale(t) ==
    \/ t.room \notin DOMAIN rooms
    \/ t.room \notin DOMAIN gameSessions
    \/ gameSessions[t.room].status # "showing_results"

\* C14: a scheduled callback that fires after its room or session was closed,
\* or after the session was advanced or restarted, raises no error and changes
\* no session
C14_StaleCallbackIsNoOp ==
    [][\A t \in Pending :
          ((FireNextQuestion(t) \/ FireFirstQuestion(t)) /\ Stale(t))
          => /\ gameSessions' = gameSessions
             /\ \A i \in DOMAIN out' : out'[i].type # "uncaughtException"]_vars

\* gameLogic.closeGameSession(roomCode) called on a live session
CloseGameSession(roomCode) ==
    /\ roomCode \in DOMAIN gameSessions
    /\ LET closed == closeGameSession(gameSessions, timers, roomCode)
       IN  /\ gameSessions' = closed.sessions
           /\ timers' = closed.timers
    /\ out' = <<>>
    /\ UNCHANGED <<rooms, players, gone, now, pure>>

\* The rounds of one room, with sessions that are closed
NextClose ==
    \/ Next
    \/ \E roomCode \in Codes : CloseGameSession(roomCode)

SpecClose == Init /\ [][NextClose]_vars

\* C15: closing a session cancels the callbacks it scheduled: no first-question
\* or between-round callback fires for a code whose session was closed
C15_CloseCancelsCallbacks ==
    [][\A t \in Pending :
          (FireFirstQuestion(t) \/ FireNextQuestion(t))
          => t.room \in DOMAIN gameSessions]_vars

(* Properties of closed rooms and of rejected answers *)

\* C16: no live state remains under the code of a closed room: every game
\* session in the store belongs to a room that the directory still holds
C16_NoStateAfterRoomClose ==
    \A roomCode \in DOMAIN gameSessions : roomCode \in DOMAIN rooms

\* The message of the rejection of an answer for a code that is not collecting
Rejection(roomCode) ==
    IF roomCode \in DOMAIN gameSessions THEN "NotPlaying" ELSE "SessionNotFound"

\* C17: a submit-answer of a player for a code whose session is missing,
\* showing results or finished is rejected with an error, and the sessions
\* (answers, scores, status, round history) and the roster are unchanged
C17_AnswerOutsideRoundRejected ==
    [][\A socketId \in Conns, roomCode \in Codes :
          \A c \in SubmitChoices(roomCode) :
             ( /\ SubmitAnswer(socketId, roomCode, c.answer, c.timeRemaining)
               /\ socketId \in DOMAIN players
               /\ NotCollecting(roomCode) )
             => /\ out' = <<ErrorEv(socketId, Rejection(roomCode))>>
                /\ gameSessions' = gameSessions
                /\ players' = players
                /\ timers' = timers]_vars

C17_Witness ==
    /\ \E socketId \in DOMAIN players : out = <<ErrorEv(socketId, "NotPlaying")>>
    /\ \E roomCode \in DOMAIN gameSessions :
          /\ gameSessions[roomCode].status = "showing_results"
          /\ gameSessions[roomCode].currentRoundAnswers # <<>>

C17_WitnessFinished ==
    /\ \E socketId \in DOMAIN players : out = <<ErrorEv(socketId, "NotPlaying")>>
    /\ \E roomCode \in DOMAIN gameSessions : gameSessions[roomCode].status = "finished"

C17_WitnessNoSession ==
    /\ \E socketId \in DOMAIN players : out = <<ErrorEv(socketId, "SessionNotFound")>>
    /\ gameSessions = EmptyMap

\* The players that have an answer recorded in the round of a session
Answerers(session) ==
    { session.currentRoundAnswers[i].playerId : i \in DOMAIN session.currentRoundAnswers }

\* C18: a round is complete only when every player on the session's roster has
\* answered it: answers of sockets that are not on the roster do not count
C18_BarrierCountsRosterOnly ==
    \A roomCode \in DOMAIN gameSessions :
        gameSessions[roomCode].allAnswersReceived
        => SessionIds(gameSessions[roomCode]) \subseteq Answerers(gameSessions[roomCode])

-----------------------------------------------------------------------------
(* The answer checks on their own: a canonical answer and a submitted answer
   are drawn at the start, then each check is applied to them once *)

\* Number.prototype.toString on a natural number
RECURSIVE numToString(_)
numToString(k) ==
    IF k < 10 THEN <<DigitChars[k + 1]>>
    ELSE numToString(k \div 10) \o <<DigitChars[(k % 10) + 1]>>

\* String(ans)
String(ans) == IF ans.t = "number" THEN numToString(ans.n) ELSE ans.s

\* QuestionBank.validateAnswer, with its own normalizeAnswer
validateNormalize(ans) ==
    IF ans.t = "number" THEN numToString(ans.n) ELSE trim(toLowerCase(String(ans)))

validateAnswer(question, answer) ==
    validateNormalize(answer) = validateNormalize(question.correctAnswer)

AnswerChars == {"3", "8", " ", "a", "B"}
AnswerStrings == UNION { [1..n -> AnswerChars] : n \in 0..MaxAnswerLen }
AnswerNumbers == {8, 38}

\* What a client may send as an answer
AnswerChoices ==
    { StrVal(chars) : chars \in AnswerStrings } \cup { NumVal(k) : k \in AnswerNumbers }

\* Canonical answers as the bank writes them: strings
CanonicalChoices == { QuestionEasy.correctAnswer, StrVal(<<"a", "B">>) }

AnswerArgs ==
    [question : { [QuestionEasy EXCEPT !.correctAnswer = canonical] :
                     canonical \in CanonicalChoices },
     answer : AnswerChoices,
     calls : {{}}, isCorrect : {FALSE}, valid : {FALSE}]

InitAnswers ==
    /\ rooms = EmptyMap
    /\ players = EmptyMap
    /\ gameSessions = EmptyMap
    /\ timers = EmptyBag
    /\ gone = {}
    /\ out = <<>>
    /\ now = 0
    /\ pure \in AnswerArgs

\* processAnswer's call: this.checkAnswer(currentQuestion, answer)
CheckAnswer ==
    /\ "checkAnswer" \notin pure.calls
    /\ pure' = [pure EXCEPT !.calls = @ \cup {"checkAnswer"},
                            !.isCorrect = checkAnswer(pure.question, pure.answer)]
    /\ UNCHANGED <<rooms, players, gameSessions, timers, gone, out, now>>

\* QuestionBank.validateAnswer(question, answer)
ValidateAnswer ==
    /\ "validateAnswer" \notin pure.calls
    /\ pure' = [pure EXCEPT !.calls = @ \cup {"validateAnswer"},
                            !.valid = validateAnswer(pure.question, pure.answer)]
    /\ UNCHANGED <<rooms, players, gameSessions, timers, gone, out, now>>

NextAnswers == CheckAnswer \/ ValidateAnswer

SpecAnswers == InitAnswers /\ [][NextAnswers]_vars

\* The string form of an answer after case-insensitive, whitespace-trimmed
\* normalization
stringForm(ans) == trim(toLowerCase(String(ans)))

\* C19: the game judges an answer correct exactly when its normalized string
\* form equals that of the canonical answer, a number counting as its string
\* form
C19_JudgedByStringForm ==
    "checkAnswer" \in pure.calls
    => (pure.isCorrect <=>
           stringForm(pure.answer) = stringForm(pure.question.correctAnswer))

-----------------------------------------------------------------------------
(* The ranking of PlayerManager on its own: a roster and a list of player ids
   are drawn at the start, then the ranking is computed once *)

\* PlayerManager.getPlayer: the record of the player, NoPlayer for null
NoPlayer == [id |-> 0]
getPlayer(ps, playerId) == IF playerId \in DOMAIN ps THEN ps[playerId] ELSE NoPlayer

\* PlayerManager.calculateAccuracy
calculateAccuracy(player) ==
    LET totalAnswers == player.correctAnswers + player.wrongAnswers
    IN  IF totalAnswers = 0 THEN 0
        ELSE MathRound(player.correctAnswers * 100, totalAnswers)

\* PlayerManager.calculatePerformance
calculatePerformance(player) ==
    LET accuracy == calculateAccuracy(player)
        avgTime == player.averageResponseTime
    IN  IF accuracy >= 90 /\ avgTime <= 5000 THEN "Excelente"
        ELSE IF accuracy >= 75 /\ avgTime <= 10000 THEN "Muy Bueno"
        ELSE IF accuracy >= 60 /\ avgTime <= 15000 THEN "Bueno"
        ELSE IF accuracy >= 40 THEN "Regular"
        ELSE "Necesita Practica"

\* The entries of a ranking: the player's record with its position
RankingEntries(sorted) ==
    [i \in DOMAIN sorted |->
        [player |-> sorted[i], rank |-> i,
         accuracy |-> calculateAccuracy(sorted[i]),
         performance |-> calculatePerformance(sorted[i])]]

\* The players of the ids that getPlayer finds, in the order of the ids
FoundPlayers(ps, playerIds) ==
    LET all == [i \in DOMAIN playerIds |-> getPlayer(ps, playerIds[i])]
        NotNull(player) == player # NoPlayer
    IN  SelectSeq(all, NotNull)

\* A ranking by score alone
rankingByScoreOnly(ps, playerIds) ==
    LET found == FoundPlayers(ps, playerIds)
        before == [i, j \in DOMAIN found |-> found[i].score > found[j].score]
    IN  RankingEntries(StableSort(found, before))

\* PlayerManager.getPlayerRanking
getPlayerRanking(ps, playerIds) ==
    LET found == FoundPlayers(ps, playerIds)
        before == [i, j \in DOMAIN found |->
                      IF found[j].score # found[i].score
                      THEN found[j].score - found[i].score < 0
                      ELSE found[i].averageResponseTime - found[j].averageResponseTime < 0]
    IN  RankingEntries(StableSort(found, before))

\* What a player of the roster has done so far: nothing, or one answer passed
\* to updatePlayerScore with its points and response time
HistoryChoices ==
    { [answered |-> FALSE, points |-> 0, isCorrect |-> FALSE, responseTime |-> 0],
      [answered |-> TRUE, points |-> 100, isCorrect |-> TRUE, responseTime |-> 3],
      [answered |-> TRUE, points |-> 100, isCorrect |-> TRUE, responseTime |-> 5],
      [answered |-> TRUE, points |-> 150, isCorrect |-> TRUE, responseTime |-> 3],
      [answered |-> TRUE, points |-> 0, isCorrect |-> FALSE, responseTime |-> 3] }

PlayerWith(socketId, history) ==
    LET player == NewPlayer(socketId, ValidName, socketId = 1)
    IN  IF history.answered
        THEN updatePlayerScore(player, history.points, history.isCorrect,
                               history.responseTime, "arithmetic", "easy")
        ELSE player

RankedIds == 1..NumRanked
UnknownId == NumRanked + 1

Rosters ==
    { [socketId \in RankedIds |-> PlayerWith(socketId, histories[socketId])] :
         histories \in [RankedIds -> HistoryChoices] }

\* Lists of distinct ids, one of them of no player
IdLists ==
    { ids \in UNION { [1..n -> RankedIds \cup {UnknownId}] : n \in 0..NumRanked } :
         \A i, j \in DOMAIN ids : i # j => ids[i] # ids[j] }

RankingArgs ==
    [roster : Rosters, playerIds : IdLists, calls : {{}}, ranking : {<<>>}]

InitRanking ==
    /\ rooms = EmptyMap
    /\ players = EmptyMap
    /\ gameSessions = EmptyMap
    /\ timers = EmptyBag
    /\ gone = {}
    /\ out = <<>>
    /\ now = 0
    /\ pure \in RankingArgs

\* playerManager.getPlayerRanking(playerIds)
GetPlayerRanking ==
    /\ "getPlayerRanking" \notin pure.calls
    /\ pure' = [pure EXCEPT !.calls = @ \cup {"getPlayerRanking"},
                            !.ranking = getPlayerRanking(pure.roster, pure.playerIds)]
    /\ UNCHANGED <<rooms, players, gameSessions, timers, gone, out, now>>

NextRanking == GetPlayerRanking

SpecRanking == InitRanking /\ [][NextRanking]_vars

\* The position of a player id in the list handed to the ranking
InputPosition(playerId) ==
    CHOOSE i \in DOMAIN pure.playerIds : pure.playerIds[i] = playerId

\* C20: the ranking holds the known players of the input, each once, with ranks
\* 1..n, ordered by score descending, then by average response time ascending,
\* then by position in the input
C20_RankingOrder ==
    "getPlayerRanking" \in pure.calls
    => LET ranking == pure.ranking
           known == { pure.playerIds[i] : i \in DOMAIN pure.playerIds } \cap RankedIds
       IN  /\ Len(ranking) = Cardinality(known)
           /\ { ranking[i].player.id : i \in DOMAIN ranking } = known
           /\ \A i \in DOMAIN ranking :
                 /\ ranking[i].rank = i
                 /\ ranking[i].player = pure.roster[ranking[i].player.id]
           /\ \A i, j \in DOMAIN ranking :
                 i < j =>
                    LET a == ranking[i].player
                        b == ranking[j].player
                    IN  \/ a.score > b.score
                        \/ /\ a.score = b.score
                           /\ a.averageResponseTime < b.averageResponseTime
                        \/ /\ a.score = b.score
                           /\ a.averageResponseTime = b.averageResponseTime
                           /\ InputPosition(a.id) < InputPosition(b.id)

C20_Witness ==
    /\ "getPlayerRanking" \in pure.calls
    /\ Len(pure.ranking) = NumRanked
    /\ \E i, j \in DOMAIN pure.ranking :
          /\ i < j
          /\ pure.ranking[i].player.score = pure.ranking[j].player.score
          /\ pure.ranking[i].player.averageResponseTime
                < pure.ranking[j].player.averageResponseTime
          /\ InputPosition(pure.ranking[i].player.id)
                > InputPosition(pure.ranking[j].player.id)
    /\ \E i, j \in DOMAIN pure.ranking :
          /\ i < j
          /\ pure.ranking[i].player.score = pure.ranking[j].player.score
          /\ pure.ranking[i].player.averageResponseTime
                = pure.ranking[j].player.averageResponseTime

-----------------------------------------------------------------------------
(* Properties of the rankings and of the final results *)

\* The response time the round ranking of an event reports for a player
RoundResponseTime(ev, playerId) ==
    LET i == CHOOSE k \in DOMAIN ev.data.roundRanking :
                 ev.data.roundRanking[k].playerId = playerId
    IN  ev.data.roundRanking[i].responseTime

\* C21: in the overall ranking of round-results, players with equal total score
\* stand in ascending order of average response time; after the first round a
\* player's average response time is its response time in that round
C21_OverallTiesByResponseTime ==
    \A e \in DOMAIN out :
        (out[e].type = "round-results" /\ out[e].data.questionNumber = 1)
        => LET ranking == out[e].data.overallRanking
           IN  \A i, j \in DOMAIN ranking :
                  (i < j /\ ranking[i].totalScore = ranking[j].totalScore)
                  => RoundResponseTime(out[e], ranking[i].playerId)
                        <= RoundResponseTime(out[e], ranking[j].playerId)

\* C22: the winner of game-finished is the first entry of the final ranking,
\* with rank 1, and its final score is at least the final score of every entry
\* of the ranking and of every player of the session
C22_WinnerHasTopScore ==
    \A e \in DOMAIN out :
        out[e].type = "game-finished"
        => LET results == out[e].data
               session == gameSessions[out[e].room]
           IN  /\ results.finalRanking # <<>>
               /\ results.winner = <<results.finalRanking[1]>>
               /\ results.finalRanking[1].rank = 1
               /\ \A i \in DOMAIN results.finalRanking :
                     results.finalRanking[1].totalScore
                        >= results.finalRanking[i].totalScore
               /\ \A playerId \in SessionIds(session) :
                     /\ \E i \in DOMAIN results.finalRanking :
                           /\ results.finalRanking[i].playerId = playerId
                           /\ results.finalRanking[i].totalScore
                                 = ScoreOf(session.playerScores, playerId)
                     /\ results.finalRanking[1].totalScore
                           >= ScoreOf(session.playerScores, playerId)

C22_Witness ==
    \E e \in DOMAIN out :
        /\ out[e].type = "game-finished"
        /\ Len(out[e].data.finalRanking) = 2
        /\ out[e].data.winner[1].playerId = gameSessions[out[e].room].players[2].id
        /\ out[e].data.winner[1].totalScore > out[e].data.finalRanking[2].totalScore

-----------------------------------------------------------------------------
(* Properties of the managers *)

\* The identity is not listed in the room of the code, or there is no such room
AbsentFromRoom(roomCode, playerId) ==
    IF roomCode \in DOMAIN rooms
    THEN SeqIndexOf(rooms[roomCode].players, playerId) = 0
    ELSE TRUE

\* C23: removing an identity that is not in the room (it was removed before,
\* or was never there) changes no player list, no score and no roster record,
\* and removing from the roster an identity that has no record changes nothing
C23_RemoveIsIdempotent ==
    [][/\ \A roomCode \in LobbyCodes, playerId \in LobbyConns :
             (RemovePlayerFromRoom(roomCode, playerId)
                 /\ AbsentFromRoom(roomCode, playerId))
             => /\ DOMAIN rooms' = DOMAIN rooms
                /\ \A c \in DOMAIN rooms :
                      /\ rooms'[c].players = rooms[c].players
                      /\ rooms'[c].scores = rooms[c].scores
                /\ players' = players
                /\ pure'.returned = FALSE
       /\ \A playerId \in LobbyConns :
             (RemovePlayer(playerId) /\ playerId \notin DOMAIN players)
             => /\ players' = players
                /\ rooms' = rooms
                /\ pure'.returned = FALSE]_vars

\* A second removal from a room that still lists other players
C23_Witness ==
    /\ pure.fn = "removePlayerFromRoom"
    /\ ~pure.returned
    /\ pure.roomCode \in DOMAIN rooms
    /\ rooms[pure.roomCode].players # <<>>
    /\ pure.playerId \in DOMAIN players
    /\ pure.playerId \notin DOMAIN rooms[pure.roomCode].scores

\* The live rooms that list a player
RoomsOf(playerId) ==
    { c \in DOMAIN rooms : SeqIndexOf(rooms[c].players, playerId) # 0 }

\* C24: every record of the roster is listed by exactly one live room, and
\* every player a live room lists has a record in the roster
C24_RosterMatchesRooms ==
    /\ \A playerId \in DOMAIN players : Cardinality(RoomsOf(playerId)) = 1
    /\ \A c \in DOMAIN rooms :
          \A i \in DOMAIN rooms[c].players : rooms[c].players[i] \in DOMAIN players

\* C25: a run of the idle sweep removes every room that has been inactive for
\* longer than the threshold, whatever its status, and leaves every other room
\* as it was
C25_SweepRemovesIdleRooms ==
    [][CleanupInterval
       => /\ DOMAIN rooms' \subseteq DOMAIN rooms
          /\ \A c \in DOMAIN rooms :
                IF now' - rooms[c].lastActivity > maxInactiveTime
                THEN c \notin DOMAIN rooms'
                ELSE c \in DOMAIN rooms' /\ rooms'[c] = rooms[c]]_vars

\* A sweep has removed a room and left an aged room of another status
C25_Witness ==
    /\ pure.fn = "cleanupInactiveRooms"
    /\ pure.returned = 1
    /\ \E c \in DOMAIN rooms :
          /\ rooms[c].status = "playing"
          /\ rooms[c].lastActivity < now
          /\ rooms[c].players # <<>>

\* Every counter of a player's record is zero
AllZero(player) ==
    /\ player.score = 0 /\ player.correctAnswers = 0 /\ player.wrongAnswers = 0
    /\ player.streak = 0 /\ player.bestStreak = 0
    /\ player.averageResponseTime = 0 /\ player.totalQuestions = 0
    /\ player.responseTimes = <<>>
    /\ \A c \in DOMAIN player.correctByCategory : player.correctByCategory[c] = 0
    /\ \A d \in DOMAIN player.difficultyPerformance :
          player.difficultyPerformance[d] = [correct |-> 0, total |-> 0]

\* C26: createPlayer rejects an invalid name (InvalidName) and a connection
\* that has a record (DuplicateConnection) and leaves the roster as it was;
\* otherwise it adds one record, with every counter at zero
C26_CreatePlayerValidates ==
    [][\A socketId \in Conns, playerName \in NameInputs :
          CreatePlayer(socketId, playerName)
          => IF playerName \in InvalidNames
             THEN pure'.err = "InvalidName" /\ players' = players
             ELSE IF socketId \in DOMAIN players
             THEN pure'.err = "DuplicateConnection" /\ players' = players
             ELSE /\ pure'.err = ""
                  /\ DOMAIN players' = DOMAIN players \cup {socketId}
                  /\ \A q \in DOMAIN players : players'[q] = players[q]
                  /\ players'[socketId].id = socketId
                  /\ AllZero(players'[socketId])]_vars

\* A connection with a record and a score was refused a second record
C26_Witness ==
    /\ pure.fn = "createPlayer"
    /\ pure.err = "DuplicateConnection"
    /\ players[pure.playerId].score > 0
    /\ players[pure.playerId].bestStreak > 0

\* C27: the best streak of a record is at least its streak and never
\* decreases; an update for a correct answer adds one to the streak and makes
\* the best streak the greater of the two, an update for an incorrect answer
\* sets the streak to 0
C27_BestStreakIsRunningMaximum ==
    /\ [](\A p \in DOMAIN players : players[p].bestStreak >= players[p].streak)
    /\ [][\A p \in DOMAIN players :
             /\ p \in DOMAIN players'
             /\ players'[p].bestStreak >= players[p].bestStreak
             /\ UpdatePlayerScore(p, TRUE)
                => /\ players'[p].streak = players[p].streak + 1
                   /\ players'[p].bestStreak
                         = IF players[p].bestStreak >= players'[p].streak
                           THEN players[p].bestStreak ELSE players'[p].streak
             /\ UpdatePlayerScore(p, FALSE)
                => /\ players'[p].streak = 0
                   /\ players'[p].bestStreak = players[p].bestStreak]_vars

\* A streak of two was broken by an incorrect answer
C27_Witness ==
    /\ pure.fn = "updatePlayerScore"
    /\ ~pure.isCorrect
    /\ pure.playerId \in DOMAIN players
    /\ players[pure.playerId].streak = 0
    /\ players[pure.playerId].bestStreak >= 2

-----------------------------------------------------------------------------
(* Properties of the round history and of the question sequence *)

\* C28: the round history of a session is in the order of the rounds: its k-th
\* entry records question number k
C28_HistoryNumbersRounds ==
    \A roomCode \in DOMAIN gameSessions :
        \A k \in DOMAIN gameSessions[roomCode].roundResults :
            gameSessions[roomCode].roundResults[k].questionNumber = k

\* C29: the question a session has on display in round k is the k-th element
\* of the question sequence initializeGame generated for it
C29_RoundPlaysSequenceElement ==
    \A roomCode \in DOMAIN gameSessions :
        LET session == gameSessions[roomCode]
            k == session.currentQuestionIndex + 1
        IN  session.status = "playing"
            => /\ k \in DOMAIN session.questions
               /\ session.currentQuestion = session.questions[k]

-----------------------------------------------------------------------------
(* Progress of a game *)

\* The session of a code has finished
Finished(roomCode) ==
    IF roomCode \in DOMAIN gameSessions
    THEN gameSessions[roomCode].status = "finished"
    ELSE FALSE

\* C30: in a game that nobody leaves and in which every player of the session
\* answers every round, a session that was started eventually finishes, and
\* game-finished goes out exactly once: in the step that finishes the session,
\* and a finished session stays finished
C30_GameEventuallyFinishes ==
    /\ \A roomCode \in Codes :
          (roomCode \in DOMAIN gameSessions) ~> Finished(roomCode)
    /\ [][\A roomCode \in Codes :
             /\ Emitted("game-finished", roomCode)'
                   <=> (~Finished(roomCode) /\ Finished(roomCode)')
             /\ Finished(roomCode) => Finished(roomCode)']_vars

C30_Witness ==
    \E roomCode \in Codes :
        /\ Finished(roomCode)
        /\ Emitted("game-finished", roomCode)
        /\ Len(gameSessions[roomCode].roundResults) = sessionDefaultTotalQuestions


-----------------------------------------------------------------------------
(* Properties of start-game and of the failed events *)

\* The session of a code is under way or over
Underway(roomCode) ==
    IF roomCode \in DOMAIN gameSessions
    THEN gameSessions[roomCode].status \in {"playing", "showing_results", "finished"}
    ELSE FALSE

\* An event handler rejected its event: all it emitted is an error
Rejected == out # <<>> /\ \A i \in DOMAIN out : out[i].type = "error"

\* C31: start-game for a room whose game is under way or finished is rejected:
\* game-started does not go out for it, and the step that rejects an event
\* leaves the session's round index, current question, recorded answers and
\* scores as they were
C31_RestartRejected ==
    [][\A roomCode \in Codes :
          Underway(roomCode)
             => /\ ~Emitted("game-started", roomCode)'
                /\ Rejected'
                     => /\ roomCode \in DOMAIN gameSessions'
                        /\ gameSessions'[roomCode].currentQuestionIndex
                              = gameSessions[roomCode].currentQuestionIndex
                        /\ gameSessions'[roomCode].currentQuestion
                              = gameSessions[roomCode].currentQuestion
                        /\ gameSessions'[roomCode].currentRoundAnswers
                              = gameSessions[roomCode].currentRoundAnswers
                        /\ gameSessions'[roomCode].playerScores
                              = gameSessions[roomCode].playerScores]_vars

\* The new-question event of the round a session has on display has not gone
\* out yet: the callback start-game scheduled for it is still pending (the
\* later rounds are announced in the step that puts them on display)
Unannounced(roomCode) ==
    \E t \in Pending : t.kind = "first" /\ t.room = roomCode

\* C32: no answer is accepted for a round, and no round-results goes out for
\* it, before the new-question event of the round has gone out to the room
C32_NoAnswerBeforeQuestion ==
    \A roomCode \in DOMAIN gameSessions :
        Unannounced(roomCode)
           => /\ gameSessions[roomCode].currentRoundAnswers = <<>>
              /\ gameSessions[roomCode].roundResults = <<>>
              /\ ~Emitted("answer-result", roomCode)
              /\ ~Emitted("round-results", roomCode)

\* The errors create-room and join-room fail with
JoinErrors == {"InvalidName", "DuplicateConnection", "RoomNotFound", "RoomFull"}

\* C33: a create-room or join-room event that fails (invalid player name,
\* connection already registered, unknown room, room full) leaves the session
\* directory and the roster exactly as they were before the event
C33_FailedEventChangesNothing ==
    [][(Rejected' /\ out'[1].data.message \in JoinErrors)
          => (rooms' = rooms /\ players' = players)]_vars

\* C34: in every state, the roster score of each roster player of a session
\* equals the running score the session keeps for that player
C34_RosterScoreIsSessionScore ==
    \A roomCode \in DOMAIN gameSessions :
        LET session == gameSessions[roomCode] IN
        \A i \in DOMAIN session.players :
            session.players[i].id \in DOMAIN players
               => players[session.players[i].id].score
                     = ScoreOf(session.playerScores, session.players[i].id)

-----------------------------------------------------------------------------
(* Properties of the scoring of an answer *)

\* C35: the maximum time processAnswer scores the answers of a round with is
\* the room's configured question time: the timeLimit of the new-question
\* event of the round
C35_ScoredWithBroadcastTimeLimit ==
    \A i \in DOMAIN out :
        (out[i].type = "new-question" /\ out[i].room \in DOMAIN gameSessions)
           => /\ out[i].room \in DOMAIN rooms
                    => out[i].data.timeLimit = rooms[out[i].room].settings.questionTime
              /\ gameSessions[out[i].room].settings.questionTime
                    = out[i].data.timeLimit

\* What processAnswer records for the answer it accepted last
LastAnswer(sessions, roomCode) ==
    sessions[roomCode].currentRoundAnswers[Len(sessions[roomCode].currentRoundAnswers)]

\* C36: the latency and the correctness recorded for an answer do not depend
\* on the timeRemaining the client reports: in every state, two submissions
\* that differ in timeRemaining only are accepted or rejected alike, record the
\* same latency and correctness and leave the same session statistics; they can
\* differ in the points only
C36_LatencyIgnoresTimeRemaining ==
    \A socketId \in Conns, roomCode \in Codes :
        \A c \in SubmitChoices(roomCode), timeRemaining \in TimeRemainingChoices :
            LET one == processAnswer(gameSessions, roomCode, socketId,
                                     c.answer, c.timeRemaining)
                other == processAnswer(gameSessions, roomCode, socketId,
                                       c.answer, timeRemaining)
            IN  /\ one.err = other.err
                /\ one.isCorrect = other.isCorrect
                /\ one.err = ""
                     => /\ LastAnswer(one.sessions, roomCode).responseTime
                              = LastAnswer(other.sessions, roomCode).responseTime
                        /\ LastAnswer(one.sessions, roomCode).isCorrect
                              = LastAnswer(other.sessions, roomCode).isCorrect
                        /\ LastAnswer(one.sessions, roomCode).responseTime
                              = now - gameSessions[roomCode].questionStartedAt
                        /\ one.sessions[roomCode].gameStats
                              = other.sessions[roomCode].gameStats

\* Two players gave the right answer to a question at the same moment, some
\* time after it went on display, one of them with a forged timeRemaining: the
\* two records have the same latency and different points
C36_Witness ==
    \E roomCode \in DOMAIN gameSessions :
        LET answers == gameSessions[roomCode].currentRoundAnswers IN
        /\ Len(answers) = 2
        /\ answers[1].isCorrect /\ answers[2].isCorrect
        /\ answers[1].timeRemaining # answers[2].timeRemaining
        /\ answers[1].responseTime > 0
        /\ answers[1].responseTime = answers[2].responseTime
        /\ answers[1].pointsEarned # answers[2].pointsEarned

-----------------------------------------------------------------------------
(* The arithmetic generators of QuestionBank on their own: the operands of a
   question are drawn at the start, then the generator makes its distractors
   and returns the question *)

\* Math.floor(Math.random() * (max - min + 1)) + min: the model draws the
\* outcomes within spread of either end of min..max
randomInt(min, max, spread) ==
    { k \in min..max : k - min < spread \/ max - k < spread }

\* Number.prototype.toString on an integer
toString(k) == IF k < 0 THEN <<"-">> \o numToString(-k) ELSE numToString(k)

\* The count every generator passes to generateWrongAnswers
wrongCount == 3

\* The ranges of the operands, [min, max] by difficulty
sumRanges ==
    [easy |-> <<1, 50>>, medium |-> <<50, 500>>, hard |-> <<500, 2000>>]
productRanges ==
    [easy |-> <<1, 12>>, medium |-> <<10, 25>>, hard |-> <<25, 50>>]
quotientRanges ==
    [easy |-> <<2, 12>>, medium |-> <<10, 25>>, hard |-> <<25, 50>>]

\* The bases and exponents of generateExponent, the pools of generateSquareRoot
exponentBases ==
    [easy |-> <<2, 3, 4, 5>>, medium |-> <<2, 3, 4, 5, 6, 7, 8>>,
     hard |-> <<2, 3, 4, 5, 6, 7, 8, 9, 10>>]
exponentExps == [easy |-> <<2, 3>>, medium |-> <<2, 3>>, hard |-> <<2, 3, 4>>]
squareRootPools ==
    [easy |-> <<1, 4, 9, 16, 25, 36, 49, 64, 81, 100>>,
     medium |-> <<100, 121, 144, 169, 196, 225, 256, 289, 324, 400>>,
     hard |-> <<400, 441, 484, 529, 576, 625, 676, 729, 784, 900>>]

\* array[Math.floor(Math.random() * array.length)]
randomElement(array) == { array[k + 1] : k \in 0..(Len(array) - 1) }

RECURSIVE pow(_, _)
pow(base, exp) == IF exp = 0 THEN 1 ELSE base * pow(base, exp - 1)

\* Math.round(Math.sqrt(radicand)) of a perfect square
sqrt(radicand) == CHOOSE k \in 0..radicand : k * k = radicand

\* Two operands drawn from one range, each with randomInt(range.min, range.max)
operandPairs(range) ==
    { <<a, b>> : a \in randomInt(range[1], range[2], OperandSpread),
                 b \in randomInt(range[1], range[2], OperandSpread) }

\* A draw of the operands of a subtraction in which b ranges like a and
\* nothing is swapped
unorderedOperands(range) == operandPairs(range)

\* The operands generateSubtraction draws: b from min to Math.min(a, max),
\* swapped when b > a
subtractionOperands(range) ==
    UNION { { IF b > a THEN <<b, a>> ELSE <<a, b>> :
                 b \in randomInt(range[1], Min(a, range[2]), OperandSpread) } :
            a \in randomInt(range[1], range[2], OperandSpread) }

\* A generator that drew its operands and computed the answer: nothing made yet
GeneratorCall(fn, difficulty, type, operands, correct) ==
    [fn |-> fn, difficulty |-> difficulty, type |-> type, operands |-> operands,
     correct |-> correct, wrongAnswers |-> <<>>, used |-> {correct},
     options |-> <<>>, correctAnswer |-> <<>>, returned |-> FALSE]

\* The calls of the six generators that use generateWrongAnswers(answer, 3)
AdditionCalls ==
    UNION { { GeneratorCall("generateAddition", d, "", o, o[1] + o[2]) :
                 o \in operandPairs(sumRanges[d]) } : d \in Difficulties }
SubtractionCalls ==
    UNION { { GeneratorCall("generateSubtraction", d, "", o, o[1] - o[2]) :
                 o \in subtractionOperands(sumRanges[d]) } : d \in Difficulties }
MultiplicationCalls ==
    UNION { { GeneratorCall("generateMultiplication", d, "", o, o[1] * o[2]) :
                 o \in operandPairs(productRanges[d]) } : d \in Difficulties }
\* operands: divisor and quotient
DivisionCalls ==
    UNION { { GeneratorCall("generateDivision", d, "", o, o[2]) :
                 o \in operandPairs(quotientRanges[d]) } : d \in Difficulties }
\* operands: base and exponent
ExponentCalls ==
    UNION { { GeneratorCall("generateExponent", d, "", <<base, exp>>, pow(base, exp)) :
                 base \in randomElement(exponentBases[d]),
                 exp \in randomElement(exponentExps[d]) } : d \in Difficulties }
SquareRootCalls ==
    UNION { { GeneratorCall("generateSquareRoot", d, "", <<radicand>>, sqrt(radicand)) :
                 radicand \in randomElement(squareRootPools[d]) } : d \in Difficulties }

WrongAnswerCalls ==
    AdditionCalls \cup SubtractionCalls \cup MultiplicationCalls
        \cup DivisionCalls \cup ExponentCalls \cup SquareRootCalls

\* generateOrderOfOperations: the expression types and the greatest operand
orderTypes ==
    [easy |-> <<"add_mul", "mul_add", "paren_add_mul">>,
     medium |-> <<"add_mul", "mul_add", "paren_add_mul", "paren_sub_mul",
                  "paren_mul_add">>,
     hard |-> <<"add_mul", "mul_add", "paren_add_mul", "paren_sub_mul",
                "three_terms", "paren_mul_add">>]
orderMax == [easy |-> 8, medium |-> 12, hard |-> 15]

r(a, b) == randomInt(a, b, OperandSpread)

\* The operands an expression type draws
orderOperands(type, hi) ==
    CASE type = "add_mul" ->
            { <<a, b, c>> : a \in r(1, hi), b \in r(2, hi), c \in r(2, hi) }
      [] type = "mul_add" ->
            { <<a, b, c>> : a \in r(2, hi), b \in r(2, hi), c \in r(1, hi) }
      [] type = "paren_add_mul" ->
            { <<a, b, c>> : a \in r(1, hi), b \in r(1, hi), c \in r(2, hi) }
      [] type = "paren_sub_mul" ->
            UNION { { <<a, b, c>> : a \in r(b + 1, hi), c \in r(2, hi) } :
                    b \in r(1, hi - 1) }
      [] type = "paren_mul_add" ->
            { <<a, b, c>> : a \in r(2, hi), b \in r(2, hi), c \in r(1, hi) }
      [] OTHER ->
            { <<a, b, c, d>> : a \in r(2, hi), b \in r(2, hi), c \in r(2, hi),
                               d \in r(2, hi) }

\* The value of the expression and its three natural distractors w1, w2, w3
orderValues(type, o) ==
    LET a == o[1]  b == o[2]  c == o[3]  d == IF Len(o) > 3 THEN o[4] ELSE 0 IN
    CASE type = "add_mul" ->
            [correct |-> a + b * c, w |-> <<(a + b) * c, a * b + c, a + b + c>>]
      [] type = "mul_add" ->
            [correct |-> a * b + c, w |-> <<a * (b + c), a + b + c, a * b - c>>]
      [] type = "paren_add_mul" ->
            [correct |-> (a + b) * c, w |-> <<a + b * c, a * c + b, (a + b) + c>>]
      [] type = "paren_sub_mul" ->
            [correct |-> (a - b) * c, w |-> <<a - b * c, a * c - b, (a + b) * c>>]
      [] type = "paren_mul_add" ->
            [correct |-> a * (b + c), w |-> <<a * b + c, a * b * c, (a + b) * c>>]
      [] OTHER ->
            [correct |-> a + b - c * d,
             w |-> <<(a + b - c) * d, a + b - c + d, a * b - c * d>>]

OrderOfOperationsCalls ==
    UNION { UNION { { GeneratorCall("generateOrderOfOperations", d, type, o,
                                    orderValues(type, o).correct) :
                         o \in orderOperands(type, orderMax[d]) } :
                    type \in randomElement(orderTypes[d]) } : d \in Difficulties }

\* [w1, w2, w3].filter(w => !used.has(w) && w >= 0 && used.add(w)): the
\* values kept, in order
RECURSIVE filterWrongs(_, _)
filterWrongs(w, used) ==
    IF w = <<>> THEN <<>>
    ELSE IF Head(w) \notin used /\ Head(w) >= 0
         THEN <<Head(w)>> \o filterWrongs(Tail(w), used \cup {Head(w)})
         ELSE filterWrongs(Tail(w), used)

\* while (wrongs.length < 3): the candidates correct + 1, correct - 1,
\* correct + 2, ... that are not used yet
RECURSIVE fillWrongs(_, _, _, _)
fillWrongs(wrongs, used, correct, fill) ==
    IF Len(wrongs) >= wrongCount THEN wrongs
    ELSE LET cand == correct + fill
             next == IF fill > 0 THEN -fill ELSE -fill + 1
         IN  IF cand \notin used
             THEN fillWrongs(Append(wrongs, cand), used \cup {cand}, correct, next)
             ELSE fillWrongs(wrongs, used, correct, next)

\* array with the elements at the 0-based indices i and j exchanged
swap(array, i, j) ==
    [k \in DOMAIN array |->
        IF k = i + 1 THEN array[j + 1] ELSE IF k = j + 1 THEN array[i + 1] ELSE array[k]]

\* shuffleArray: for i from length - 1 down to 1, exchange i with a random
\* j in 0..i
RECURSIVE shuffleFrom(_, _)
shuffleFrom(array, i) ==
    IF i < 1 THEN {array}
    ELSE UNION { shuffleFrom(swap(array, i, j), i - 1) :
                    j \in randomInt(0, i, OperandSpread) }

shuffleArray(array) == shuffleFrom(array, Len(array) - 1)

\* [correct.toString(), ...wrongs]
optionsOf(correct, wrongs) ==
    <<toString(correct)>> \o [k \in DOMAIN wrongs |-> toString(wrongs[k])]

\* One pass of the loop of generateWrongAnswers: an offset is drawn, and the
\* answer it gives is kept when it is not used yet
DrawWrongAnswer ==
    /\ pure.fn # "generateOrderOfOperations"
    /\ ~pure.returned
    /\ Len(pure.wrongAnswers) < wrongCount
    /\ \E offset \in randomInt(-Max(1, (pure.correct * 3) \div 10),
                               Max(1, (pure.correct * 3) \div 10), OffsetSpread) :
          LET wrong == Max(0, pure.correct + offset) IN
          pure' = IF wrong \notin pure.used
                  THEN [pure EXCEPT !.wrongAnswers = Append(@, wrong),
                                    !.used = @ \cup {wrong}]
                  ELSE pure
    /\ UNCHANGED <<rooms, players, gameSessions, timers, gone, out, now>>

\* generateWrongAnswers returned: the generator shuffles the options and
\* returns the question
ReturnQuestion ==
    /\ pure.fn # "generateOrderOfOperations"
    /\ ~pure.returned
    /\ Len(pure.wrongAnswers) = wrongCount
    /\ \E options \in shuffleArray(optionsOf(pure.correct, pure.wrongAnswers)) :
          pure' = [pure EXCEPT !.options = options,
                               !.correctAnswer = toString(pure.correct),
                               !.returned = TRUE]
    /\ UNCHANGED <<rooms, players, gameSessions, timers, gone, out, now>>

\* generateOrderOfOperations from the operands on
GenerateOrderOfOperations ==
    /\ pure.fn = "generateOrderOfOperations"
    /\ ~pure.returned
    /\ LET w == filterWrongs(orderValues(pure.type, pure.operands).w, {pure.correct})
           wrongs == fillWrongs(w, {pure.correct} \cup Range(w), pure.correct, 1)
       IN  \E options \in shuffleArray(optionsOf(pure.correct, SubSeq(wrongs, 1, 3))) :
              pure' = [pure EXCEPT !.wrongAnswers = SubSeq(wrongs, 1, 3),
                                   !.used = {pure.correct} \cup Range(wrongs),
                                   !.options = options,
                                   !.correctAnswer = toString(pure.correct),
                                   !.returned = TRUE]
    /\ UNCHANGED <<rooms, players, gameSessions, timers, gone, out, now>>

InitGenerators ==
    /\ rooms = EmptyMap
    /\ players = EmptyMap
    /\ gameSessions = EmptyMap
    /\ timers = EmptyBag
    /\ gone = {}
    /\ out = <<>>
    /\ now = 0
    /\ pure \in WrongAnswerCalls \cup OrderOfOperationsCalls

NextGenerators == DrawWrongAnswer \/ ReturnQuestion \/ GenerateOrderOfOperations

SpecGenerators == InitGenerators /\ [][NextGenerators]_vars

-----------------------------------------------------------------------------
(* QuestionBank.getQuestionSet on its own: one step for each choice of a
   difficulty and for each pass of the loop that draws a question *)

\* The attempts getQuestionSet makes for a slot
maxAttempts == 10

defaultCategories == <<"arithmetic", "logic", "geometry">>

\* What getRandomQuestion(category, difficulty) may return: the questions of
\* the category, whatever the difficulty; prompts and answers are strings
SetQuestion(prompt, answer, category) ==
    [id |-> 0, question |-> prompt, correctAnswer |-> answer,
     category |-> category, timeLimit |-> 0]

randomQuestions(category) ==
    CASE category = "logic" ->
            { SetQuestion(<<"2", ",", "4", "?">>, <<"6">>, "logic"),
              SetQuestion(<<"5", "+", "8", "?">>, <<"1", "3">>, "logic") }
      [] category = "geometry" ->
            { SetQuestion(<<"l", "a", "d", "o", "s", "?">>, <<"3">>, "geometry") }
      [] OTHER ->
            { SetQuestion(<<"1", "5", "+", "2", "3", "?">>, <<"3", "8">>, "arithmetic"),
              SetQuestion(<<"9", "-", "4", "?">>, <<"5">>, "arithmetic") }

\* `${question.question}-${question.correctAnswer}`
questionKey(question) == question.question \o <<"-">> \o question.correctAnswer

\* The arguments of a call: count, and the categories (the default ones, or
\* one category only)
SetCalls ==
    [fn : {"getQuestionSet"}, count : 1..MaxSetCount,
     categories : {defaultCategories, <<"logic">>},
     i : {0}, difficulty : {""}, attempts : {0}, questions : {<<>>},
     usedQuestions : {{}}, hung : {FALSE}, returned : {FALSE}]

\* categories[i % categories.length]
slotCategory(call) == call.categories[(call.i % Len(call.categories)) + 1]

\* question.id = `q_${i + 1}`, question.timeLimit = 30, questions.push(question)
pushQuestion(call, question) ==
    [call EXCEPT !.questions = Append(@, [question EXCEPT !.id = call.i + 1,
                                                          !.timeLimit = 30]),
                 !.i = @ + 1, !.difficulty = "", !.attempts = 0]

\* A pass that takes the question it drew without looking at the keys used
acceptAnyDraw(call, question) ==
    pushQuestion([call EXCEPT !.usedQuestions = @ \cup {questionKey(question)}],
                 question)

\* One pass of the while loop with the question drawn: a key that is not used
\* ends the loop; a used key counts an attempt, and after the last attempt
\* the loop ends with the question drawn last; the question is pushed when the
\* loop ends
drawOutcome(call, question) ==
    IF questionKey(question) \notin call.usedQuestions
    THEN pushQuestion([call EXCEPT !.usedQuestions = @ \cup {questionKey(question)}],
                      question)
    ELSE IF call.attempts + 1 < maxAttempts
    THEN [call EXCEPT !.attempts = @ + 1]
    ELSE pushQuestion(call, question)

\* selectDifficultyFromDistribution for the slot i: with the base difficulty
\* medium every difficulty has a positive probability
SelectDifficulty ==
    /\ pure.fn = "getQuestionSet" /\ ~pure.returned /\ ~pure.hung
    /\ pure.i < pure.count /\ pure.difficulty = ""
    /\ \E difficulty \in Difficulties :
          pure' = [pure EXCEPT !.difficulty = difficulty, !.attempts = 0]
    /\ UNCHANGED <<rooms, players, gameSessions, timers, gone, out, now>>

\* A pass of the loop: getRandomQuestion returns a question
DrawQuestion ==
    /\ pure.fn = "getQuestionSet" /\ ~pure.returned /\ ~pure.hung
    /\ pure.i < pure.count /\ pure.difficulty # ""
    /\ pure.attempts < maxAttempts
    /\ \E question \in randomQuestions(slotCategory(pure)) :
          pure' = drawOutcome(pure, question)
    /\ UNCHANGED <<rooms, players, gameSessions, timers, gone, out, now>>

\* A pass of the loop in which getRandomQuestion does not return: it
\* generates an arithmetic question whose answer is from 0 to 6, and
\* generateWrongAnswers never has its 3 distractors
DrawNeverReturns ==
    /\ pure.fn = "getQuestionSet" /\ ~pure.returned /\ ~pure.hung
    /\ pure.i < pure.count /\ pure.difficulty # ""
    /\ slotCategory(pure) = "arithmetic"
    /\ pure' = [pure EXCEPT !.hung = TRUE]
    /\ UNCHANGED <<rooms, players, gameSessions, timers, gone, out, now>>

\* return questions
ReturnQuestionSet ==
    /\ pure.fn = "getQuestionSet" /\ ~pure.returned /\ ~pure.hung
    /\ pure.i >= pure.count
    /\ pure' = [pure EXCEPT !.returned = TRUE]
    /\ UNCHANGED <<rooms, players, gameSessions, timers, gone, out, now>>

InitQuestionSet ==
    /\ rooms = EmptyMap
    /\ players = EmptyMap
    /\ gameSessions = EmptyMap
    /\ timers = EmptyBag
    /\ gone = {}
    /\ out = <<>>
    /\ now = 0
    /\ pure \in SetCalls

NextQuestionSet ==
    SelectDifficulty \/ DrawQuestion \/ DrawNeverReturns \/ ReturnQuestionSet

SpecQuestionSet == InitQuestionSet /\ [][NextQuestionSet]_vars

-----------------------------------------------------------------------------
(* Properties of the generated questions *)

\* The answers a pass of the loop of generateWrongAnswers can give
WrongAnswersInReach(correct) ==
    { Max(0, correct + offset) :
         offset \in (-Max(1, (correct * 3) \div 10))..Max(1, (correct * 3) \div 10) }

\* C37: generateWrongAnswers(correct, 3) terminates with 3 distractors for
\* every answer the generators produce, the smallest ones included: while the
\* loop has fewer than 3 distractors, some offset it can draw gives an answer
\* that is not used yet
C37_WrongAnswersTerminate ==
    (pure.fn # "generateOrderOfOperations" /\ Len(pure.wrongAnswers) < wrongCount)
       => WrongAnswersInReach(pure.correct) \ pure.used # {}

\* The values of the distractors among the options of a question
DistractorValues == { pure.wrongAnswers[k] : k \in DOMAIN pure.wrongAnswers }

\* C38: every question an arithmetic generator returns offers exactly 4
\* options, no two alike, exactly one of which is the correct answer, and its
\* 3 distractors are not negative
C38_FourDistinctOptions ==
    pure.returned
       => /\ Len(pure.options) = 4
          /\ Cardinality(Range(pure.options)) = 4
          /\ Cardinality({ k \in DOMAIN pure.options :
                              pure.options[k] = pure.correctAnswer }) = 1
          /\ Cardinality(DistractorValues) = 3
          /\ \A w \in DistractorValues :
                w >= 0 /\ toString(w) \in Range(pure.options)

\* C39: every subtraction question has a correct answer of 0 or more: the
\* minuend shown is never smaller than the subtrahend
C39_SubtractionNeverNegative ==
    pure.fn = "generateSubtraction"
       => /\ pure.operands[1] >= pure.operands[2]
          /\ pure.correct = pure.operands[1] - pure.operands[2]
          /\ pure.correct >= 0
          /\ pure.returned => Head(pure.correctAnswer) # "-"

\* A subtraction question was returned: its minuend is the greater operand
\* and its correct answer the difference
C39_Witness ==
    /\ pure.fn = "generateSubtraction"
    /\ pure.returned
    /\ pure.operands[1] > pure.operands[2]
    /\ pure.correctAnswer = toString(pure.operands[1] - pure.operands[2])

\* The keys of the questions a call has pushed
PushedKeys(call) == { questionKey(call.questions[k]) : k \in DOMAIN call.questions }

\* C40: getQuestionSet emits a question whose prompt and answer are those of
\* an earlier question of the set only when 10 draws in a row for the slot
\* gave keys that were used; it does not wait on a collision (while no draw is
\* stuck inside getRandomQuestion the call can go on), and the set it returns
\* has one question for each of the count slots
C40_DuplicateOnlyAfterTenDraws ==
    /\ [](pure.attempts < maxAttempts
          /\ PushedKeys(pure) = pure.usedQuestions
          /\ ((~pure.returned /\ ~pure.hung) => ENABLED <<NextQuestionSet>>_vars)
          /\ (pure.returned
                => /\ Len(pure.questions) = pure.count
                   /\ \A k \in DOMAIN pure.questions : pure.questions[k].id = k))
    /\ [][(Len(pure'.questions) > Len(pure.questions)
             /\ questionKey(pure'.questions[Len(pure'.questions)]) \in PushedKeys(pure))
           => pure.attempts = maxAttempts - 1]_vars

\* A set was returned in which two questions have the same prompt and answer
C40_Witness ==
    /\ pure.returned
    /\ Len(pure.questions) = pure.count
    /\ \E k, l \in DOMAIN pure.questions :
          k < l /\ questionKey(pure.questions[k]) = questionKey(pure.questions[l])
=============================================================================
